---- MODULE Spec2Model ----
(***************************************************************************)
(* EMR Integration Planner & Executor: the plan executor and the           *)
(* templating engine (backend/agent/emr_runner.py), the credential broker  *)
(* (backend/config.py), document discovery (backend/agent/tools.py) and    *)
(* the mapping agent (backend/agent/graph.py) and the transcription status *)
(* poll (backend/services/ekascribe.py), as state machines.                *)
(***************************************************************************)
EXTENDS Integers, Sequences, FiniteSets, TLC

VARIABLES
    \* ---- plan executor: one call of execute_request_plan
    request_plan,   \* the plan argument: a dict with optional push_fhir / get_fhir
    execute_get,    \* the direction flag
    ex_pc,          \* "idle" | "loop" | "done"
    ex_i,           \* position of the for loop in specs (1-based)
    issued,         \* the HTTP calls issued by this call, in order
    last_status,    \* local last_status
    last_body,      \* local last_body
    ex_ret,         \* the returned tuple, or NoRet
    \* ---- credential broker, config.py
    cfg,                \* the EKASCRIBE_* / EKAEMR_* module constants, per domain
    emr_connect_cache,  \* _emr_connect_cache: cache key -> {access_token, expires_at}
    scribe_token_cache, \* _scribe_token_cache: {access_token, expires_at}, each optional
    now,                \* the wall clock, time.time()
    th,                 \* per thread: the resolution it runs, its position and locals
    logins,             \* login exchanges issued so far, per resolved identity
    ntok,               \* tokens minted so far by the login endpoint
    calls,              \* resolutions started so far
    ticks,              \* clock advances so far
    \* ---- document discovery: one call of search_docs
    sd_pc,              \* "idle" | "tavily" | "fallback" | "done"
    sd_queries,         \* the queries argument
    sd_key,             \* TAVILY_API_KEY
    sd_q,               \* position of the running backend's loop over queries[:5]
    sd_acc,             \* the running backend's items and seen
    sd_primary,         \* what tavily_search returned, once it has
    sd_fallback_called, \* fallback_web_search was called
    sd_log,             \* the backend calls made, with their answers
    sd_result,          \* what search_docs returned, once it has
    \* ---- mapping agent: one run of the pipeline
    ag_pc,              \* "idle", the node due next, "END" or "raised"
    ag_state,           \* the shared state of the run
    ag_initial,         \* the state the run started with
    ag_cfg,             \* GROQ_API_KEY and TAVILY_API_KEY of the configuration
    ag_trace,           \* the nodes run so far, in order
    ag_err,             \* the exception that ended the run
    ag_llm,             \* the text the model answered to each asking node
    ag_upsert,          \* what became of the upsert
    ag_fetch,           \* what became of each fetch of the fetch_docs stage
    \* ---- the fetch loop: one call of fetch_docs_from_urls
    fd_pc,              \* fetch_docs_from_urls: "idle" | "loop" | "done"
    fd_urls,            \* the URLs it was called with
    fd_i,               \* the position of the loop in them
    fd_docs,            \* the documents fetched so far
    fd_log,             \* the URLs visited, each with what became of it
    \* ---- templating engine: the body and headers built for one spec
    ap_pc,              \* "idle" | "ready" | "done" | "raised"
    ap_spec,            \* the spec: body_template, fhir_mapping and headers
    ap_bundle,          \* the FHIR bundle
    ap_credentials,     \* the credential record, or None
    ap_headers,         \* the headers built
    ap_body,            \* the body built
    ap_shared,          \* the template nodes the body holds as the same object
    \* ---- transcription: the status poll of one call of transcribe_audio_files
    tr_pc,              \* "idle" | "polling" | "returned" | "raised"
    tr_attempt,         \* the loop variable attempt
    tr_statuses,        \* the status codes of the status requests answered, in order
    tr_requests,        \* status requests sent so far
    tr_last,            \* what became of the last status request
    tr_ret              \* what the call returned or raised

execVars == <<request_plan, execute_get, ex_pc, ex_i, issued, last_status, last_body, ex_ret>>

brokerVars == <<cfg, emr_connect_cache, scribe_token_cache, now, th, logins, ntok, calls, ticks>>

fetchVars == <<fd_pc, fd_urls, fd_i, fd_docs, fd_log>>

discoveryVars ==
    <<sd_pc, sd_queries, sd_key, sd_q, sd_acc, sd_primary, sd_fallback_called, sd_log, sd_result>>

searchVars == <<discoveryVars, fetchVars>>

agentVars == <<ag_pc, ag_state, ag_initial, ag_cfg, ag_trace, ag_err, ag_llm, ag_upsert, ag_fetch>>

applyVars == <<ap_pc, ap_spec, ap_bundle, ap_credentials, ap_headers, ap_body, ap_shared>>

pollVars == <<tr_pc, tr_attempt, tr_statuses, tr_requests, tr_last, tr_ret>>

vars == <<execVars, brokerVars, searchVars, agentVars, applyVars, pollVars>>

-----------------------------------------------------------------------------
(* Values.  Python's None is the empty tuple, a present value x is <<x>>.   *)

None == <<>>
Some(x) == <<x>>

Min(a, b) == IF a <= b THEN a ELSE b

\* JSON values as tagged records
JNull == [t |-> "null"]
JList(s) == [t |-> "list", v |-> s]

\* dict.get(k): None for a missing key
Get(d, k) == IF k \in DOMAIN d THEN d[k] ELSE JNull

\* `x or []` for a JSON list-or-null
OrEmptyList(x) == IF x.t = "list" THEN x.v ELSE <<>>

\* A text is its content tag and its length; slicing keeps a prefix.
EmptyText == [tag |-> "", len |-> 0]
Text(tag, n) == IF n = 0 THEN EmptyText ELSE [tag |-> tag, len |-> n]
Slice(text, n) == Text(text.tag, Min(text.len, n))

-----------------------------------------------------------------------------
(* Plan executor, emr_runner.py                                            *)

MaxSpecs == 3
BODY_CAP == 2000
ERROR_CAP == 500

\* the statuses a server answers with; 399/400 is the boundary of line 95
Statuses == {200, 301, 399, 400, 500}
Texts == {EmptyText, Text("a", 501), Text("b", 2001)}
TransportErrors == {"timeout"}

Methods == {"", "get", "POST", "put"}
Upper(m) == CASE m = "get" -> "GET" [] m = "put" -> "PUT" [] OTHER -> m

\* the k-th spec of a direction's list
SpecOf(dir, k, m) == [id |-> <<dir, k>>, method |-> m]

SpecLists(dir) ==
    UNION {[1..n -> {SpecOf(dir, k, m) : k \in 1..MaxSpecs, m \in {"POST"}}] : n \in 0..MaxSpecs}

\* lists whose k-th element is the k-th spec, with one method varied
PlanLists(dir) ==
    {s \in SpecLists(dir) : \A k \in DOMAIN s : s[k].id = <<dir, k>>}
    \cup {<<SpecOf(dir, 1, m)>> : m \in Methods}

PlanField(dir) == {JNull} \cup {JList(s) : s \in PlanLists(dir)}

\* request plans: each key missing, None, or a list
Plans ==
    {[k \in {"push_fhir", "get_fhir"} |-> IF k = "push_fhir" THEN p ELSE g] :
        p \in PlanField("push"), g \in PlanField("get")}
    \cup {[k \in {"push_fhir"} |-> p] : p \in PlanField("push")}
    \cup {[k \in {"get_fhir"} |-> g] : g \in PlanField("get")}

NoRet == [returned |-> FALSE]
Ret(ok, status, body, err) ==
    [returned |-> TRUE, ok |-> ok, status |-> status, body |-> body, error |-> err]

NoSpecsError == <<"No request specs in plan">>
HttpError(status, body) == <<"HTTP", status, Slice(body, ERROR_CAP)>>
ExcError(msg) == <<"exc", msg>>

\* line 70
PlanKey_AlwaysPush(eg) == "push_fhir"
PlanKey(eg) == IF eg THEN "get_fhir" ELSE "push_fhir"

\* line 71
SelectedSpecs(plan, eg) == OrEmptyList(Get(plan, PlanKey(eg)))

\* line 81
MethodOf(spec) == Upper(IF spec.method = "" THEN "GET" ELSE spec.method)

\* line 95: the response ends the loop with a failure
IsFailureStatus_Above400(status) == status > 400
IsFailureStatus_Non2xx(status) == status \notin 200..299
IsFailureStatus_Never(status) == FALSE
IsFailureStatus(status) == status >= 400

\* lines 86-92: the call issued for a spec, with what came back
Answered(spec, status, text) ==
    [spec |-> spec.id, method |-> MethodOf(spec), raised |-> FALSE, status |-> status, text |-> text]
Raised(spec, msg) ==
    [spec |-> spec.id, method |-> MethodOf(spec), raised |-> TRUE, msg |-> msg]

InitExec ==
    /\ request_plan = [k \in {} |-> JNull]
    /\ execute_get = FALSE
    /\ ex_pc = "idle"
    /\ ex_i = 0
    /\ issued = <<>>
    /\ last_status = None
    /\ last_body = EmptyText
    /\ ex_ret = NoRet

\* lines 63-76: the call, up to the loop.  A call keeps nothing from an
\* earlier one, so one call is followed from its start to its return.
ExecCall ==
    /\ ex_pc = "idle"
    /\ \E plan \in Plans, eg \in BOOLEAN :
        /\ request_plan' = plan
        /\ execute_get' = eg
        /\ issued' = <<>>
        /\ last_status' = None
        /\ last_body' = EmptyText
        /\ IF SelectedSpecs(plan, eg) = <<>>
           THEN /\ ex_pc' = "done"
                /\ ex_i' = 0
                /\ ex_ret' = Ret(FALSE, None, EmptyText, Some(NoSpecsError))
           ELSE /\ ex_pc' = "loop"
                /\ ex_i' = 1
                /\ ex_ret' = NoRet

\* lines 77-97 and 101: one iteration whose call is answered
ExecIssueAnswered ==
    /\ ex_pc = "loop"
    /\ LET specs == SelectedSpecs(request_plan, execute_get)
           spec == specs[ex_i]
       IN \E status \in Statuses, text \in Texts :
            LET body == Slice(text, BODY_CAP) IN
            /\ issued' = Append(issued, Answered(spec, status, text))
            /\ last_status' = Some(status)
            /\ last_body' = body
            /\ IF IsFailureStatus(status)
               THEN /\ ex_ret' = Ret(FALSE, Some(status), body, Some(HttpError(status, body)))
                    /\ ex_pc' = "done"
                    /\ ex_i' = ex_i
               ELSE IF ex_i = Len(specs)
               THEN /\ ex_ret' = Ret(TRUE, Some(status), body, None)
                    /\ ex_pc' = "done"
                    /\ ex_i' = ex_i
               ELSE /\ ex_ret' = NoRet
                    /\ ex_pc' = "loop"
                    /\ ex_i' = ex_i + 1
    /\ UNCHANGED <<request_plan, execute_get>>

\* the call that raised is issued again
ExecIssueRaises_Retry ==
    /\ ex_pc = "loop"
    /\ Len(issued) <= MaxSpecs
    /\ LET specs == SelectedSpecs(request_plan, execute_get)
           spec == specs[ex_i]
       IN \E msg \in TransportErrors :
            issued' = Append(issued, Raised(spec, msg))
    /\ UNCHANGED <<request_plan, execute_get, ex_i, ex_pc, ex_ret, last_status, last_body>>

\* lines 85-92 and 98-100: one iteration whose call raises
ExecIssueRaises ==
    /\ ex_pc = "loop"
    /\ LET specs == SelectedSpecs(request_plan, execute_get)
           spec == specs[ex_i]
       IN \E msg \in TransportErrors :
            /\ issued' = Append(issued, Raised(spec, msg))
            /\ ex_ret' = Ret(FALSE, None, EmptyText, Some(ExcError(msg)))
            /\ ex_pc' = "done"
    /\ UNCHANGED <<request_plan, execute_get, ex_i, last_status, last_body>>

NextExec ==
    \/ ExecCall /\ UNCHANGED <<brokerVars, searchVars, agentVars, applyVars, pollVars>>
    \/ ExecIssueAnswered /\ UNCHANGED <<brokerVars, searchVars, agentVars, applyVars, pollVars>>
    \/ ExecIssueRaises /\ UNCHANGED <<brokerVars, searchVars, agentVars, applyVars, pollVars>>

-----------------------------------------------------------------------------
(* Credential broker, config.py.  The strings the broker strips are        *)
(* sequences of characters.                                                *)

RECURSIVE LStripChars(_, _), RStripChars(_, _)
LStripChars(s, cs) ==
    IF s # <<>> /\ Head(s) \in cs THEN LStripChars(Tail(s), cs) ELSE s
RStripChars(s, cs) ==
    IF s # <<>> /\ s[Len(s)] \in cs THEN RStripChars(SubSeq(s, 1, Len(s) - 1), cs) ELSE s

Whitespace == {" "}
\* str.strip()
Strip(s) == RStripChars(LStripChars(s, Whitespace), Whitespace)
\* str.rstrip("/")
RStripSlash(s) == RStripChars(s, {"/"})

\* truth value of an optional string: None and "" are false
Truthy(p) == p # None /\ p[1] # <<>>
Val(p) == p[1]

MaxCalls == 2
MaxTicks == 2

CONNECT_TTL == 1800
DEFAULT_EXPIRES_IN == 1800
EXPIRY_MARGIN == 60

\* clock advances: one second, and one second short of a cached token's life
TickSteps == {1, CONNECT_TTL - EXPIRY_MARGIN - 1}

Threads == {"t1", "t2"}
MainThread == {"t1"}
Domains == {"scribe", "emr"}

DEFAULT_BASE == <<"d">>

\* ---- the module constants of one domain (lines 27-40)
DomainCfg(tok, cid, sec, base) ==
    [api_token |-> tok, client_id |-> cid, client_secret |-> sec, base_url |-> base]

DomainCfgs ==
    { DomainCfg(None, Some(<<"c">>), Some(<<"s">>), <<"u", "/">>),
      DomainCfg(Some(<<"k">>), Some(<<"c">>), Some(<<"s">>), <<"u">>),
      DomainCfg(Some(<<"k">>), Some(<<"c">>), None, <<"u">>),
      DomainCfg(None, None, None, <<"u">>) }

\* ---- per-call parameters (lines 135-141, 176-182)
ApiTokens == {None, Some(<<>>), Some(<<" ", "k">>)}
ClientIds == {None, Some(<<"c", " ">>), Some(<<" ">>)}
ClientSecrets == {None, Some(<<"s">>)}
BaseUrls == {None, Some(<<"v", "/">>)}

\* eka_auth of _eka_headers_and_base: None, or a dict with the four keys
EkaAuths ==
    {None} \cup
    {Some([api_token |-> a, client_id |-> c, client_secret |-> x, base_url |-> b]) :
        a \in {None, Some(<<"k">>)}, c \in {None, Some(<<"c">>)},
        x \in ClientSecrets, b \in BaseUrls}

\* ---- what the login endpoint answers (lines 88-98, 109-119)
\* the expires_in a login endpoint declares: the one at "u" 600 seconds, any
\* other none at all
DeclaredExpiresIn(base) == IF base = <<"u">> THEN Some(600) ELSE None
LoginFailures == {"HTTPStatusError", "ValueError: missing access_token"}

\* a token minted by the login endpoint of `base` for (cid, csec), asked for by
\* a resolution of domain d, with the expires_in the response declares
Minted(id, d, cid, csec, base, ei) ==
    [id |-> id, minted |-> <<d, cid, csec, base>>, expires_in |-> ei]
StaticToken(s) == [static |-> s]
NoTok == [id |-> 0]

\* ---- cache entries.  exp_of, at and serial are history: the exchange whose
\* expiry is stored, the clock read by the store, the logins issued by then.
Absent == [present |-> FALSE]
Entry(tok, exp, at, serial) ==
    [present |-> TRUE, access_token |-> tok, expires_at |-> exp,
     exp_of |-> tok.id, at |-> at, serial |-> serial]

\* dict.get / dict[k] = v on _emr_connect_cache
Lookup(c, k) == IF k \in DOMAIN c THEN c[k] ELSE Absent
Store(c, k, e) == [x \in DOMAIN c \cup {k} |-> IF x = k THEN e ELSE c[x]]

LoginsOf(k) == IF k \in DOMAIN logins THEN logins[k] ELSE 0
CountLogin(k) == [x \in DOMAIN logins \cup {k} |-> IF x = k THEN LoginsOf(k) + 1 ELSE logins[x]]

EmptyScribeCache == [access_token |-> None, expires_at |-> None, exp_of |-> 0, at |-> 0]
ScribeKey == <<"scribe_default">>

\* lines 149, 190: the cache key of a per-call resolution
CacheKey_NoDomain(d, cid, csec, base) == <<"emr", cid, csec, base>>
CacheKey(d, cid, csec, base) == <<d, cid, csec, base>>

\* lines 152, 193: cached and (cached.get("expires_at") or 0) > now
HitParams_Never(cached, t) == FALSE
HitParams(cached, t) == cached.present /\ cached.expires_at > t

\* line 167: not cached or (cached.get("expires_at") or 0) <= now
MissEmrDefault_Strict(cached, t) == ~cached.present \/ cached.expires_at < t
MissEmrDefault(cached, t) == ~cached.present \/ cached.expires_at <= t

\* line 127
MissScribeDefault(c, t) ==
    \/ c.access_token = None
    \/ (IF c.expires_at = None THEN 0 ELSE c.expires_at[1]) <= t

\* lines 155, 169, 196: the expiry stored with a token of the keyed cache
StoredExpiry(t, tok) == t + CONNECT_TTL - EXPIRY_MARGIN

\* line 99: int(data.get("expires_in", 1800)) - 60
ScribeExpiresIn(ei) == (IF ei = None THEN DEFAULT_EXPIRES_IN ELSE ei[1]) - EXPIRY_MARGIN

\* ---- results
NoResult == [kind |-> "none"]
Ok(tok, base) == [kind |-> "ok", token |-> tok, base |-> base]
Raise(e) == [kind |-> "raised", error |-> e]

IdleThread ==
    [pc |-> "idle", d |-> "", strategy |-> "", key |-> <<>>, req |-> <<>>,
     base |-> None, now |-> 0, seen |-> Absent, tok |-> NoTok, ei |-> 0,
     exchanged |-> FALSE, n0 |-> 0, given_token |-> None, given_pair |-> FALSE,
     ret |-> NoResult]

Return(r, res) == [r EXCEPT !.pc = "done", !.ret = res]

\* variant: the static token is tried before the pair
EnterEmrDefault_StaticFirst(r) ==
    LET c == cfg["emr"]
        pair == Truthy(c.client_id) /\ Truthy(c.client_secret)
    IN  IF ~Truthy(c.api_token) /\ ~pair
        THEN Return([r EXCEPT !.strategy = "invalid"], Raise("ValueError"))
        ELSE IF Truthy(c.api_token)
        THEN Return([r EXCEPT !.strategy = "default_static"],
                    Ok(StaticToken(Val(c.api_token)), r.base))
        ELSE LET key == <<"emr", Val(c.client_id), Val(c.client_secret), c.base_url>>
                 cached == Lookup(emr_connect_cache, key)
                 q == [r EXCEPT !.strategy = "default_pair", !.key = key,
                                !.req = <<"emr", Val(c.client_id), Val(c.client_secret), c.base_url>>,
                                !.now = now, !.seen = cached, !.n0 = LoginsOf(key)]
             IN  IF MissEmrDefault(cached, now)
                 THEN [q EXCEPT !.pc = "fetch"]
                 ELSE Return(q, Ok(cached.access_token, r.base))

\* lines 75-82 and 160-173: get_eka_emr_headers up to its exchange
EnterEmrDefault(r) ==
    LET c == cfg["emr"]
        pair == Truthy(c.client_id) /\ Truthy(c.client_secret)
    IN  IF ~Truthy(c.api_token) /\ ~pair
        THEN Return([r EXCEPT !.strategy = "invalid"], Raise("ValueError"))
        ELSE IF pair
        THEN LET key == <<"emr", Val(c.client_id), Val(c.client_secret), c.base_url>>
                 cached == Lookup(emr_connect_cache, key)
                 q == [r EXCEPT !.strategy = "default_pair", !.key = key,
                                !.req = <<"emr", Val(c.client_id), Val(c.client_secret), c.base_url>>,
                                !.now = now, !.seen = cached, !.n0 = LoginsOf(key)]
             IN  IF MissEmrDefault(cached, now)
                 THEN [q EXCEPT !.pc = "fetch"]
                 ELSE Return(q, Ok(cached.access_token, r.base))
        ELSE Return([r EXCEPT !.strategy = "default_static"],
                    Ok(StaticToken(Val(c.api_token)), r.base))

\* lines 64-72 and 123-132: get_eka_scribe_headers up to its exchange
EnterScribeDefault(r) ==
    LET c == cfg["scribe"]
        pair == Truthy(c.client_id) /\ Truthy(c.client_secret)
    IN  IF ~Truthy(c.api_token) /\ ~pair
        THEN Return([r EXCEPT !.strategy = "invalid"], Raise("ValueError"))
        ELSE IF pair
        THEN LET seen == IF scribe_token_cache.access_token = None THEN Absent
                         ELSE [present |-> TRUE,
                               access_token |-> scribe_token_cache.access_token[1],
                               expires_at |-> IF scribe_token_cache.expires_at = None THEN 0
                                              ELSE scribe_token_cache.expires_at[1],
                               exp_of |-> scribe_token_cache.exp_of]
                 q == [r EXCEPT !.strategy = "default_pair", !.key = ScribeKey,
                                !.req = <<"scribe", Val(c.client_id), Val(c.client_secret), c.base_url>>,
                                !.now = now, !.seen = seen, !.n0 = LoginsOf(ScribeKey)]
             IN  IF MissScribeDefault(scribe_token_cache, now)
                 THEN [q EXCEPT !.pc = "sfetch"]
                 ELSE [q EXCEPT !.pc = "sread"]
        ELSE Return([r EXCEPT !.strategy = "default_static"],
                    Ok(StaticToken(Val(c.api_token)), r.base))

EnterDefault(r) == IF r.d = "emr" THEN EnterEmrDefault(r) ELSE EnterScribeDefault(r)

\* lines 142, 183
BaseOf(d, base_url) ==
    RStripSlash(IF Truthy(base_url) THEN Val(base_url)
                ELSE IF cfg[d].base_url # <<>> THEN cfg[d].base_url
                ELSE DEFAULT_BASE)

\* lines 143-145, 184-186: which strategy the parameters select
PickStrategy_PairFirst(api_token, client_id, client_secret) ==
    IF Truthy(client_id) /\ Truthy(client_secret) THEN "pair"
    ELSE IF Truthy(api_token) THEN "static"
    ELSE "default"
PickStrategy(api_token, client_id, client_secret) ==
    IF Truthy(api_token) THEN "static"
    ELSE IF Truthy(client_id) /\ Truthy(client_secret) THEN "pair"
    ELSE "default"

\* lines 135-157 and 176-198: get_eka_{scribe,emr}_headers_from_params up to
\* its exchange
EnterFromParams(r0, d, api_token, client_id, client_secret, base_url) ==
    LET base == BaseOf(d, base_url)
        r == [r0 EXCEPT !.d = d, !.base = Some(base),
                        !.given_token = IF Truthy(api_token) THEN api_token ELSE None,
                        !.given_pair = Truthy(client_id) /\ Truthy(client_secret)]
        how == PickStrategy(api_token, client_id, client_secret)
    IN  IF how = "static"
        THEN Return([r EXCEPT !.strategy = "static"],
                    Ok(StaticToken(Strip(Val(api_token))), Some(base)))
        ELSE IF how = "pair"
        THEN LET cid == Strip(Val(client_id))
                 csec == Strip(Val(client_secret))
             IN  IF cid = <<>> \/ csec = <<>>
                 THEN Return([r EXCEPT !.strategy = "pair"], Raise("ValueError"))
                 ELSE LET key == CacheKey(d, cid, csec, base)
                          cached == Lookup(emr_connect_cache, key)
                          q == [r EXCEPT !.strategy = "pair", !.key = key,
                                         !.req = <<d, cid, csec, base>>,
                                         !.now = now, !.seen = cached, !.n0 = LoginsOf(key)]
                      IN  IF HitParams(cached, now)
                          THEN Return(q, Ok(cached.access_token, Some(base)))
                          ELSE [q EXCEPT !.pc = "fetch"]
        ELSE EnterDefault(r)

\* eka_abdm.py lines 33-41: _eka_headers_and_base
EnterAbdm(r0, eka_auth) ==
    IF /\ eka_auth # None
       /\ \/ Truthy(Val(eka_auth).api_token)
          \/ Truthy(Val(eka_auth).client_id) /\ Truthy(Val(eka_auth).client_secret)
    THEN EnterFromParams(r0, "emr", Val(eka_auth).api_token, Val(eka_auth).client_id,
                         Val(eka_auth).client_secret, Val(eka_auth).base_url)
    ELSE EnterEmrDefault([r0 EXCEPT !.d = "emr",
            !.base = Some(RStripSlash(IF cfg["emr"].base_url # <<>>
                                      THEN cfg["emr"].base_url ELSE DEFAULT_BASE))])

CanBegin(t) == th[t].pc \in {"idle", "done"} /\ calls < MaxCalls

Begun(t, r) ==
    /\ th' = [th EXCEPT ![t] = r]
    /\ calls' = calls + 1
    /\ UNCHANGED <<cfg, emr_connect_cache, scribe_token_cache, now, logins, ntok, ticks>>

\* a call of get_eka_scribe_headers_from_params / get_eka_emr_headers_from_params
BeginFromParams(t) ==
    /\ CanBegin(t)
    /\ \E d \in Domains, a \in ApiTokens, c \in ClientIds, x \in ClientSecrets, b \in BaseUrls :
        Begun(t, EnterFromParams(IdleThread, d, a, c, x, b))

\* a call of get_eka_scribe_headers / get_eka_emr_headers
BeginDefault(t) ==
    /\ CanBegin(t)
    /\ \E d \in Domains :
        Begun(t, EnterDefault([IdleThread EXCEPT !.d = d]))

\* a call of _eka_headers_and_base
BeginAbdm(t) ==
    /\ CanBegin(t)
    /\ \E eka_auth \in EkaAuths :
        Begun(t, EnterAbdm(IdleThread, eka_auth))

\* how long a login call takes, in seconds
LoginSeconds == {1}

\* variant: a failed login stores an entry without a token
LoginAnswered_FailureStores(t, next_pc) ==
    /\ logins' = CountLogin(th[t].key)
    /\ \E secs \in LoginSeconds : now' = now + secs
    /\ \/ LET ei == DeclaredExpiresIn(RStripSlash(th[t].req[4])) IN
            /\ ntok' = ntok + 1
            /\ th' = [th EXCEPT ![t] =
                        [@ EXCEPT !.pc = next_pc, !.exchanged = TRUE,
                                  !.ei = ScribeExpiresIn(ei),
                                  !.tok = Minted(ntok + 1, th[t].req[1], th[t].req[2],
                                                 th[t].req[3], RStripSlash(th[t].req[4]), ei)]]
            /\ UNCHANGED <<emr_connect_cache, scribe_token_cache>>
       \/ \E e \in LoginFailures :
            /\ ntok' = ntok
            /\ th' = [th EXCEPT ![t] = Return([@ EXCEPT !.exchanged = TRUE], Raise(e))]
            /\ IF next_pc = "store"
               THEN /\ emr_connect_cache' =
                        Store(emr_connect_cache, th[t].key,
                              Entry(NoTok, StoredExpiry(now, NoTok), now, LoginsOf(th[t].key)))
                    /\ UNCHANGED scribe_token_cache
               ELSE /\ scribe_token_cache' =
                        [scribe_token_cache EXCEPT !.access_token = Some(NoTok),
                                                   !.expires_at = Some(now + DEFAULT_EXPIRES_IN)]
                    /\ UNCHANGED emr_connect_cache
    /\ UNCHANGED <<cfg, calls, ticks>>

\* the login endpoint's answer to the thread's POST, after some time
LoginAnswered(t, next_pc) ==
    /\ logins' = CountLogin(th[t].key)
    /\ \E secs \in LoginSeconds : now' = now + secs
    /\ \/ LET ei == DeclaredExpiresIn(RStripSlash(th[t].req[4])) IN
            /\ ntok' = ntok + 1
            /\ th' = [th EXCEPT ![t] =
                        [@ EXCEPT !.pc = next_pc, !.exchanged = TRUE,
                                  !.ei = ScribeExpiresIn(ei),
                                  !.tok = Minted(ntok + 1, th[t].req[1], th[t].req[2],
                                                 th[t].req[3], RStripSlash(th[t].req[4]), ei)]]
       \/ \E e \in LoginFailures :
            /\ ntok' = ntok
            /\ th' = [th EXCEPT ![t] = Return([@ EXCEPT !.exchanged = TRUE], Raise(e))]
    /\ UNCHANGED <<cfg, emr_connect_cache, scribe_token_cache, calls, ticks>>

\* lines 106-120: _fetch_connect_token_from_params
Fetch(t) ==
    /\ th[t].pc = "fetch"
    /\ LoginAnswered(t, "store")

\* lines 155-156, 169-172, 196-197: store the entry and return the header
StoreEntry(t) ==
    /\ th[t].pc = "store"
    /\ emr_connect_cache' =
            Store(emr_connect_cache, th[t].key,
                  Entry(th[t].tok, StoredExpiry(now, th[t].tok), now, LoginsOf(th[t].key)))
    /\ th' = [th EXCEPT ![t] = Return(@, Ok(@.tok, @.base))]
    /\ UNCHANGED <<cfg, scribe_token_cache, now, logins, ntok, calls, ticks>>

\* lines 85-99: _fetch_connect_token_scribe up to its cache writes
ScribeFetch(t) ==
    /\ th[t].pc = "sfetch"
    /\ LoginAnswered(t, "swrite1")

\* line 100
ScribeWriteToken(t) ==
    /\ th[t].pc = "swrite1"
    /\ scribe_token_cache' = [scribe_token_cache EXCEPT !.access_token = Some(th[t].tok)]
    /\ th' = [th EXCEPT ![t].pc = "swrite2"]
    /\ UNCHANGED <<cfg, emr_connect_cache, now, logins, ntok, calls, ticks>>

\* lines 101-103 and 131
ScribeWriteExpiry(t) ==
    /\ th[t].pc = "swrite2"
    /\ scribe_token_cache' = [scribe_token_cache EXCEPT
            !.expires_at = Some(now + th[t].ei), !.exp_of = th[t].tok.id, !.at = now]
    /\ th' = [th EXCEPT ![t] = Return(@, Ok(@.tok, @.base))]
    /\ UNCHANGED <<cfg, emr_connect_cache, now, logins, ntok, calls, ticks>>

\* lines 130-131: the cached token is read again after the check
ScribeRead(t) ==
    /\ th[t].pc = "sread"
    /\ th' = [th EXCEPT ![t] = Return(@, Ok(scribe_token_cache.access_token[1], @.base))]
    /\ UNCHANGED <<cfg, emr_connect_cache, scribe_token_cache, now, logins, ntok, calls, ticks>>

\* time passes between resolutions
Tick ==
    /\ ticks < MaxTicks
    /\ \A t \in Threads : th[t].pc \in {"idle", "done"}
    /\ \E d \in TickSteps : now' = now + d
    /\ ticks' = ticks + 1
    /\ UNCHANGED <<cfg, emr_connect_cache, scribe_token_cache, th, logins, ntok, calls>>

InitBroker ==
    /\ cfg \in {[d \in Domains |-> c] : c \in DomainCfgs}
    /\ emr_connect_cache = [k \in {} |-> Absent]
    /\ scribe_token_cache = EmptyScribeCache
    /\ now = 0
    /\ th = [t \in Threads |-> IdleThread]
    /\ logins = [k \in {} |-> 0]
    /\ ntok = 0
    /\ calls = 0
    /\ ticks = 0

-----------------------------------------------------------------------------
(* Document discovery, agent/tools.py: search_docs over a primary backend  *)
(* (tavily_search) and a secondary one (fallback_web_search).              *)

MaxQueries == 3
QUERY_CAP == 5
SNIPPET_CAP == 2000

\* TAVILY_API_KEY: unset, or set
TavilyKeys == {None, Some("tvly")}

\* the query lists a caller passes: q1 .. qn
QueryLists == {[k \in 1..n |-> <<"q", k>>] : n \in 0..MaxQueries}

\* one raw result of a backend: every attribute optional
Raw(url, href, title, text) == [url |-> url, href |-> href, title |-> title, text |-> text]

\* a backend's answer to one query: the call raises, or a list of raw results
Failed == [failed |-> TRUE]
Results(s) == [failed |-> FALSE, results |-> s]

TavilyResponses ==
    { Failed,
      Results(<<>>),
      Results(<<Raw(None, None, Some("e"), Text("e", 1))>>),
      Results(<<Raw(Some("https://a"), None, Some("a"), Text("a", 2001))>>),
      Results(<<Raw(Some(""), Some("https://a"), Some("b"), EmptyText), Raw(Some("http://b"), None, None, Text("c", 1))>>),
      Results(<<Raw(Some("http://b"), Some("ftp://c"), Some("d"), Text("d", 1)), Raw(Some("http://b"), None, Some("c"), Text("c", 1))>>) }

DdgResponses ==
    { Failed,
      Results(<<>>),
      Results(<<Raw(Some("https://d"), Some("ftp://c"), Some("e"), Text("e", 1))>>),
      Results(<<Raw(None, Some("https://a"), Some("a"), Text("a", 2001))>>),
      Results(<<Raw(None, Some("https://a"), Some("b"), EmptyText), Raw(None, Some("http://b"), None, Text("c", 1))>>) }

\* `x or ""` for an optional string
OrEmpty(p) == IF p = None THEN "" ELSE p[1]

\* line 37: url or href or "";  line 63: r.get("href", "") or ""
UrlOf(backend, r) ==
    IF backend = "tavily"
    THEN (IF OrEmpty(r.url) # "" THEN OrEmpty(r.url) ELSE OrEmpty(r.href))
    ELSE OrEmpty(r.href)

\* lines 40-44, 66-70: the item built from a raw result
ItemOf(backend, r) ==
    [url |-> UrlOf(backend, r), title |-> OrEmpty(r.title), content |-> Slice(r.text, SNIPPET_CAP)]

\* lines 38, 64: the result is new
Fresh_NoSeen(url, seen) == url # ""
Fresh(url, seen) == url # "" /\ url \notin seen

NoItems == [items |-> <<>>, seen |-> {}]

\* lines 36-44, 62-70: the inner loop over the results of one query
RECURSIVE AddResults(_, _, _)
AddResults(acc, backend, raws) ==
    IF raws = <<>> THEN acc
    ELSE LET r == Head(raws)
             url == UrlOf(backend, r)
         IN  AddResults(IF Fresh(url, acc.seen)
                        THEN [items |-> Append(acc.items, ItemOf(backend, r)),
                              seen |-> acc.seen \cup {url}]
                        ELSE acc,
                        backend, Tail(raws))

\* lines 34-46, 61-72: one query, whose failure is logged and skipped
AfterQuery_FailureClears(acc, backend, resp) ==
    IF resp.failed THEN NoItems ELSE AddResults(acc, backend, resp.results)
AfterQuery(acc, backend, resp) ==
    IF resp.failed THEN acc ELSE AddResults(acc, backend, resp.results)

\* queries[:5]
Capped(queries) == SubSeq(queries, 1, Min(Len(queries), QUERY_CAP))

\* the outer loop of a backend over the answers to its queries
RECURSIVE AfterQueries(_, _, _)
AfterQueries(acc, backend, resps) ==
    IF resps = <<>> THEN acc
    ELSE AfterQueries(AfterQuery(acc, backend, Head(resps)), backend, Tail(resps))

\* line 25: tavily_search runs at all
TavilyEnabled(key, queries) == key # None /\ key[1] # "" /\ queries # <<>>

\* line 81: not result.results
PrimaryEmpty_Always(items) == TRUE
PrimaryEmpty(items) == items = <<>>

\* lines 79-83 as a function of what the backends answer: resps_p and resps_s
\* hold one answer per capped query; client_ok tells whether a backend's
\* client could be created
SearchDocs(key, queries, client_p, resps_p, client_s, resps_s) ==
    LET primary == IF TavilyEnabled(key, queries) /\ client_p
                   THEN AfterQueries(NoItems, "tavily", resps_p).items
                   ELSE <<>>
    IN  IF PrimaryEmpty(primary)
        THEN (IF client_s THEN AfterQueries(NoItems, "ddg", resps_s).items ELSE <<>>)
        ELSE primary

Called(backend, k, resp) == [backend |-> backend, q |-> k, resp |-> resp]

InitSearch ==
    /\ sd_pc = "idle"
    /\ sd_queries = <<>>
    /\ sd_key = None
    /\ sd_q = 0
    /\ sd_acc = NoItems
    /\ sd_primary = None
    /\ sd_fallback_called = FALSE
    /\ sd_log = <<>>
    /\ sd_result = None
    /\ fd_pc = "idle"
    /\ fd_urls = <<>>
    /\ fd_i = 0
    /\ fd_docs = <<>>
    /\ fd_log = <<>>

\* line 82 and lines 54-56: the secondary backend is entered
EnterFallback(queries) ==
    /\ sd_fallback_called' = TRUE
    /\ sd_acc' = NoItems
    /\ sd_q' = 1
    /\ IF Capped(queries) = <<>>
       THEN sd_pc' = "done" /\ sd_result' = Some(<<>>)
       ELSE sd_pc' = "fallback" /\ sd_result' = None

\* lines 80-81: tavily_search has returned the items of acc
PrimaryReturns(acc, queries) ==
    /\ sd_primary' = Some(acc.items)
    /\ IF PrimaryEmpty(acc.items)
       THEN EnterFallback(queries)
       ELSE /\ sd_pc' = "done"
            /\ sd_result' = Some(acc.items)
            /\ sd_acc' = acc
            /\ sd_q' = sd_q
            /\ sd_fallback_called' = FALSE

\* lines 79-80 and 23-27: search_docs is called
SearchCall ==
    /\ sd_pc = "idle"
    /\ \E queries \in QueryLists, key \in TavilyKeys :
        /\ sd_queries' = queries
        /\ sd_key' = key
        /\ sd_log' = <<>>
        /\ IF TavilyEnabled(key, queries)
           THEN /\ sd_pc' = "tavily"
                /\ sd_q' = 1
                /\ sd_acc' = NoItems
                /\ sd_primary' = None
                /\ sd_fallback_called' = FALSE
                /\ sd_result' = None
           ELSE PrimaryReturns(NoItems, queries)

\* lines 28-30 and 49-51: the primary's client cannot be created
TavilyClientFails ==
    /\ sd_pc = "tavily" /\ sd_q = 1
    /\ sd_log' = Append(sd_log, Called("tavily", 0, Failed))
    /\ PrimaryReturns(NoItems, sd_queries)
    /\ UNCHANGED <<sd_queries, sd_key>>

\* lines 33-48: one query of the primary
TavilyQuery ==
    /\ sd_pc = "tavily"
    /\ \E resp \in TavilyResponses :
        LET acc == AfterQuery(sd_acc, "tavily", resp) IN
        /\ sd_log' = Append(sd_log, Called("tavily", sd_q, resp))
        /\ IF sd_q = Len(Capped(sd_queries))
           THEN PrimaryReturns(acc, sd_queries)
           ELSE /\ sd_acc' = acc
                /\ sd_q' = sd_q + 1
                /\ UNCHANGED <<sd_pc, sd_primary, sd_fallback_called, sd_result>>
    /\ UNCHANGED <<sd_queries, sd_key>>

\* lines 57-59 and 73-76: the secondary's client cannot be created
FallbackClientFails ==
    /\ sd_pc = "fallback" /\ sd_q = 1
    /\ sd_log' = Append(sd_log, Called("ddg", 0, Failed))
    /\ sd_pc' = "done"
    /\ sd_result' = Some(sd_acc.items)
    /\ UNCHANGED <<sd_queries, sd_key, sd_q, sd_acc, sd_primary, sd_fallback_called>>

\* lines 60-72 and 75-76, 83: one query of the secondary
FallbackQuery ==
    /\ sd_pc = "fallback"
    /\ \E resp \in DdgResponses :
        LET acc == AfterQuery(sd_acc, "ddg", resp) IN
        /\ sd_log' = Append(sd_log, Called("ddg", sd_q, resp))
        /\ sd_acc' = acc
        /\ IF sd_q = Len(Capped(sd_queries))
           THEN sd_pc' = "done" /\ sd_result' = Some(acc.items) /\ sd_q' = sd_q
           ELSE sd_pc' = "fallback" /\ sd_result' = None /\ sd_q' = sd_q + 1
    /\ UNCHANGED <<sd_queries, sd_key, sd_primary, sd_fallback_called>>

-----------------------------------------------------------------------------
(* Mapping agent, agent/graph.py: the five-stage pipeline.                 *)
(* JSON values are tagged records; a Python string is a tuple of pieces.   *)

JStr(v) == [t |-> "str", v |-> v]
JNum(n) == [t |-> "num", v |-> n]
JBool(b) == [t |-> "bool", v |-> b]
JObj(f) == [t |-> "obj", v |-> f]
NoKeys == [k \in {} |-> JNull]

\* Python truth value of a JSON value
JTruthy(x) ==
    CASE x.t = "null" -> FALSE
      [] x.t = "bool" -> x.v
      [] x.t = "num" -> x.v # 0
      [] x.t = "str" -> \E i \in DOMAIN x.v : x.v[i] # ""
      [] x.t = "list" -> x.v # <<>>
      [] x.t = "obj" -> DOMAIN x.v # {}

\* the text of a model answer, as tokens: a code fence, the tag "json"
\* after it, white space, prose, or the text of one JSON value
Fence == [k |-> "fence"]
JsonTag == [k |-> "json"]
Ws == [k |-> "ws"]
Prose == [k |-> "prose"]
Json(x) == [k |-> "value", v |-> x]

\* str.strip() on a text
StripText(text) == RStripChars(LStripChars(text, {Ws}), {Ws})

\* json.loads: the value, or JSONDecodeError
Parsed(x) == [ok |-> TRUE, v |-> x]
JSONDecodeError == [ok |-> FALSE, error |-> "JSONDecodeError"]
JsonLoads(text) ==
    LET t == StripText(text) IN
    IF Len(t) = 1 /\ t[1].k = "value" THEN Parsed(t[1].v) ELSE JSONDecodeError

\* line 31: the first fenced block, if a fence is closed by a later one
FencedBlock(text) ==
    LET fences == {i \in DOMAIN text : text[i] = Fence} IN
    IF Cardinality(fences) < 2 THEN None
    ELSE LET i == CHOOSE x \in fences : \A y \in fences : x <= y
             from == IF text[i + 1] = JsonTag THEN i + 2 ELSE i + 1
             j == CHOOSE x \in fences : x > i /\ \A y \in fences : y > i => x <= y
         IN  Some(StripText(SubSeq(text, from, j - 1)))

\* lines 29-34
ParseJsonFromLlm(text) ==
    LET t == StripText(text)
        m == FencedBlock(t)
    IN  JsonLoads(IF m # None THEN StripText(m[1]) ELSE t)

\* ---- request specs a model may write, and their validation (models.py 27-33)
SpecFields == {"method", "url", "headers", "body_template", "fhir_mapping", "description"}

IsStrMap(x) == x.t = "obj" /\ \A k \in DOMAIN x.v : x.v[k].t = "str"

\* RequestSpec.model_validate accepts s
ValidSpec(s) ==
    /\ s.t = "obj"
    /\ \A k \in DOMAIN s.v \cap SpecFields :
        CASE k \in {"method", "url", "description"} -> s.v[k].t = "str"
          [] k \in {"headers", "fhir_mapping"} -> IsStrMap(s.v[k])
          [] k = "body_template" -> s.v[k].t \in {"obj", "list", "null"}

SpecDefault(k) ==
    CASE k = "method" -> JStr(<<"POST">>)
      [] k \in {"url", "description"} -> JStr(<<"">>)
      [] k \in {"headers", "fhir_mapping"} -> JObj(NoKeys)
      [] k = "body_template" -> JNull

\* RequestSpec.model_dump of a validated spec: the six fields, defaults filled
DumpSpec(s) == [k \in SpecFields |-> IF k \in DOMAIN s.v THEN s.v[k] ELSE SpecDefault(k)]

GoodSpec == JObj([k \in {"method", "url"} |->
                    IF k = "method" THEN JStr(<<"POST">>) ELSE JStr(<<"/patients">>)])
BareSpec == JObj(NoKeys)
ExtraKeySpec == JObj([k \in {"url", "note"} |-> JStr(<<"x">>)])
BadMethodSpec == JObj([k \in {"method"} |-> JNum(5)])
BadTemplateSpec == JObj([k \in {"body_template"} |-> JStr(<<"{{id}}">>)])

\* ---- what the model answers
QueriesObj(q) == JObj([k \in {"queries"} |-> q])
OneQuery == JList(<<JStr(<<"acme api">>)>>)
TwoQueries == JList(<<JStr(<<"acme api">>), JStr(<<"acme fhir">>)>>)

SplitTexts ==
    { <<>>,
      <<Prose>>,
      <<Fence, Json(QueriesObj(OneQuery))>>,
      <<Ws, Json(QueriesObj(TwoQueries)), Ws>>,
      <<Prose, Ws, Fence, JsonTag, Ws, Json(QueriesObj(OneQuery)), Ws, Fence, Prose>>,
      <<Json(JObj(NoKeys))>>,
      <<Json(QueriesObj(JList(<<>>)))>>,
      <<Json(QueriesObj(JStr(<<"acme api">>)))>>,
      <<Json(QueriesObj(JList(<<JNum(1)>>)))>>,
      <<Json(JList(<<>>))>>,
      <<Json(JNull)>> }

PlanObj(p, g) == JObj([k \in {"push_fhir", "get_fhir"} |-> IF k = "push_fhir" THEN p ELSE g])
PushOnly(p) == JObj([k \in {"push_fhir"} |-> p])

PlanTexts ==
    { <<>>,
      <<Prose>>,
      <<Fence, JsonTag, Json(PlanObj(JList(<<GoodSpec>>), JList(<<>>))), Fence>>,
      <<Fence, Prose, Fence>>,
      <<Json(PlanObj(JList(<<BareSpec, ExtraKeySpec>>), JList(<<GoodSpec>>)))>>,
      <<Json(JObj(NoKeys))>>,
      <<Json(PushOnly(JNull))>>,
      <<Json(PushOnly(JList(<<BadMethodSpec>>)))>>,
      <<Json(PlanObj(JList(<<>>), JList(<<BadTemplateSpec>>)))>>,
      <<Json(PushOnly(JList(<<JStr(<<"POST /patients">>)>>)))>>,
      <<Json(PushOnly(JStr(<<"POST /patients">>)))>>,
      <<Json(PushOnly(JNum(5)))>>,
      <<Json(JList(<<GoodSpec>>))>>,
      <<Json(JStr(<<"no plan">>))>> }

REASONING_CAP == 500
\* text[:500], a token counted as one character
Prefix(text, n) == SubSeq(text, 1, Min(Len(text), n))

\* ---- the shared state: a dict of the fields set so far (state.py 4-32)
InputFields == {"api_doc_url", "fhir_bundle", "emr_id", "groq_api_key", "groq_model"}

NoState == [k \in {} |-> None]

\* the update a stage returns is merged key by key into the state
Merge_Clobber(state, delta) ==
    [k \in DOMAIN state \cup DOMAIN delta |->
        IF k \in DOMAIN delta THEN delta[k] ELSE IF k = "emr_id" THEN "default" ELSE state[k]]
Merge(state, delta) ==
    [k \in DOMAIN state \cup DOMAIN delta |-> IF k \in DOMAIN delta THEN delta[k] ELSE state[k]]

\* results of a stage: the update it returns, or the exception it raises
Returns(delta) == [raised |-> FALSE, delta |-> delta]
Raises(e) == [raised |-> TRUE, error |-> e]

\* dict literals
Dict1(k, v) == [x \in {k} |-> v]
Dict2(k1, v1, k2, v2) == [x \in {k1, k2} |-> IF x = k1 THEN v1 ELSE v2]
Dict3(k1, v1, k2, v2, k3, v3) ==
    [x \in {k1, k2, k3} |-> IF x = k1 THEN v1 ELSE IF x = k2 THEN v2 ELSE v3]

\* lines 148-153
Edges_SkipFetch ==
    { <<"START", "split_queries">>, <<"split_queries", "search_docs">>,
      <<"search_docs", "plan_emr">>, <<"fetch_docs", "plan_emr">>,
      <<"plan_emr", "persist_mapping">>, <<"persist_mapping", "END">> }
Edges ==
    { <<"START", "split_queries">>, <<"split_queries", "search_docs">>,
      <<"search_docs", "fetch_docs">>, <<"fetch_docs", "plan_emr">>,
      <<"plan_emr", "persist_mapping">>, <<"persist_mapping", "END">> }

\* the node the graph runs after node n
NextNode(n) == CHOOSE m \in {e[2] : e \in Edges} : <<n, m>> \in Edges

\* lines 18-21: the model key of a run; ValueError when there is none
LlmKey(api_key, cfg_key) ==
    Strip(IF Truthy(api_key) THEN Val(api_key)
          ELSE IF Truthy(cfg_key) THEN Val(cfg_key) ELSE <<>>)

\* state.get(k): None for a field not set
StateGet(state, k) == IF k \in DOMAIN state THEN Some(state[k]) ELSE None

\* ---- split_queries, lines 46-63
\* line 59: the exceptions the stage catches
CaughtBySplitQueries(e) == e \in {"JSONDecodeError", "KeyError"}

\* line 60
FallbackQueries(url) ==
    JList(<<JStr(<<url, " API documentation">>), JStr(<<"EMR REST API endpoints">>),
            JStr(<<"FHIR API push">>)>>)

\* line 61: SearchQueries(queries=...) accepts a list of strings only
IsListOfStr(x) == x.t = "list" /\ \A i \in DOMAIN x.v : x.v[i].t = "str"

\* lines 55-63, given the model's answer
SplitQueries(state, text) ==
    LET url == state["api_doc_url"]
        r == ParseJsonFromLlm(text)
        queries ==
            IF ~r.ok THEN FallbackQueries(url)
            ELSE LET q == Get(r.v.v, "queries") IN IF JTruthy(q) THEN q ELSE JList(<<>>)
    IN  IF ~r.ok /\ ~CaughtBySplitQueries(r.error) THEN Raises(r.error)
        ELSE IF r.ok /\ r.v.t # "obj" THEN Raises("AttributeError")
        ELSE IF ~IsListOfStr(queries) THEN Raises("ValidationError")
        ELSE Returns(Dict1("search_queries", [queries |-> queries.v]))

\* ---- search_docs_node, lines 66-74
GenericQueries == <<JStr(<<"EMR API documentation">>), JStr(<<"REST API FHIR endpoints">>)>>

\* lines 68-71: the queries searched
NodeQueries(state) ==
    LET data == StateGet(state, "search_queries")
        queries == IF data = None THEN <<>> ELSE data[1].queries
    IN  IF queries = <<>> THEN GenericQueries ELSE queries

SearchDocsNode(state, key, client_p, resps_p, client_s, resps_s) ==
    Returns(Dict1("doc_search_result",
                   [results |-> SearchDocs(key, NodeQueries(state), client_p, resps_p, client_s, resps_s)]))

\* the answers a backend gives within a pipeline run
AgentTavilyResponses ==
    { Failed,
      Results(<<Raw(Some("https://a"), None, Some("a"), Text("a", 2001))>>) }
AgentDdgResponses ==
    { Results(<<>>),
      Results(<<Raw(None, Some("https://a"), Some("b"), EmptyText), Raw(None, Some("http://b"), None, Text("c", 1))>>),
      Results(<<Raw(Some("https://d"), Some("ftp://c"), Some("e"), Text("e", 1))>>) }

\* ---- fetch_docs_node, lines 77-91, and tools.py 13-20, 86-98
MAX_FETCH_CHARS == 80000
TRUNCATION_MARK_LEN == 16
MAX_DOCS == 10
PART_CAP == 15000

HttpUrls == {"https://a", "http://b", "https://d"}
\* url.startswith("http")
StartsWithHttp(url) == url \in HttpUrls

FetchFailed == [failed |-> TRUE]
Fetched(text) == [failed |-> FALSE, text |-> text]
FetchOutcomes == {FetchFailed, Fetched(Text("page", 100)), Fetched(Text("long", 80001))}

\* tools.py 18-20: the text is cut and marked when it is too long
Truncated(text) ==
    IF text.len > MAX_FETCH_CHARS
    THEN Text(text.tag, MAX_FETCH_CHARS + TRUNCATION_MARK_LEN)
    ELSE text

\* tools.py 89: the URL is not fetched at all
Skipped(url) == url = "" \/ ~StartsWithHttp(url)

\* tools.py 91-96: the documents after one fetch, whose failure is logged
\* and skipped
AfterFetch(docs, url, got) ==
    IF got.failed THEN docs ELSE Append(docs, [url |-> url, content |-> Truncated(got.text)])

\* tools.py 88-96: the loop of fetch_docs_from_urls
RECURSIVE FetchLoop(_, _, _)
FetchLoop(docs, urls, outcome) ==
    IF urls = <<>> THEN docs
    ELSE LET url == Head(urls) IN
         FetchLoop(IF Skipped(url) THEN docs ELSE AfterFetch(docs, url, outcome[url]),
                   Tail(urls), outcome)

\* urls[:max_docs]
FirstDocs(urls) == SubSeq(urls, 1, Min(Len(urls), MAX_DOCS))

FetchDocsFromUrls(urls, outcome) == FetchLoop(<<>>, FirstDocs(urls), outcome)

\* fetch_docs_from_urls step by step, on the URLs a search returned
Visited(url, got) == [url |-> url, got |-> got]
NotFetched == [skipped |-> TRUE]

\* tools.py 86-88 and 97-98: the call, up to the loop
FetchCall ==
    /\ fd_pc = "idle"
    /\ sd_pc = "done"
    /\ LET urls == [i \in DOMAIN sd_result[1] |-> sd_result[1][i].url] IN
        /\ fd_urls' = urls
        /\ fd_pc' = IF FirstDocs(urls) = <<>> THEN "done" ELSE "loop"
        /\ fd_i' = 1
    /\ fd_docs' = <<>>
    /\ fd_log' = <<>>

\* tools.py 88-98: one iteration
FetchUrl ==
    /\ fd_pc = "loop"
    /\ LET url == FirstDocs(fd_urls)[fd_i] IN
       IF Skipped(url)
       THEN /\ fd_docs' = fd_docs
            /\ fd_log' = Append(fd_log, Visited(url, NotFetched))
       ELSE \E got \in FetchOutcomes :
            /\ fd_docs' = AfterFetch(fd_docs, url, got)
            /\ fd_log' = Append(fd_log, Visited(url, got))
    /\ IF fd_i = Len(FirstDocs(fd_urls))
       THEN fd_pc' = "done" /\ fd_i' = fd_i
       ELSE fd_pc' = "loop" /\ fd_i' = fd_i + 1
    /\ UNCHANGED fd_urls

NoDocsFetched == [kind |-> "(no docs fetched)"]
NoContent == [kind |-> "(no content)"]
\* lines 86-89: one part per document, its content cut to 15000 characters
DocContent(docs) ==
    IF docs = <<>> THEN NoContent
    ELSE [kind |-> "docs",
          parts |-> [i \in DOMAIN docs |-> [url |-> docs[i].url, content |-> Slice(docs[i].content, PART_CAP)]]]

\* line 81
UrlsOf(state) ==
    LET data == StateGet(state, "doc_search_result")
        results == IF data = None THEN <<>> ELSE data[1].results
    IN  [i \in DOMAIN SelectSeq(results, LAMBDA r : r.url # "") |->
            SelectSeq(results, LAMBDA r : r.url # "")[i].url]

\* variant: a fetch that failed ends the stage with its exception
FetchDocsNode_Propagates(state, outcome) ==
    LET urls == UrlsOf(state) IN
    IF urls = <<>>
    THEN Returns(Dict2("fetched_docs", [docs |-> <<>>], "doc_content", NoDocsFetched))
    ELSE IF \E i \in DOMAIN urls : ~Skipped(urls[i]) /\ outcome[urls[i]].failed
         THEN Raises("HTTPError")
         ELSE LET docs == FetchDocsFromUrls(urls, outcome) IN
              Returns(Dict2("fetched_docs", [docs |-> docs], "doc_content", DocContent(docs)))

FetchDocsNode(state, outcome) ==
    LET urls == UrlsOf(state) IN
    IF urls = <<>>
    THEN Returns(Dict2("fetched_docs", [docs |-> <<>>], "doc_content", NoDocsFetched))
    ELSE LET docs == FetchDocsFromUrls(urls, outcome) IN
         Returns(Dict2("fetched_docs", [docs |-> docs], "doc_content", DocContent(docs)))

\* ---- plan_emr, lines 94-114
\* line 110: the exceptions the stage catches
CaughtByPlanEmr_Nothing(e) == FALSE
CaughtByPlanEmr(e) == e = "JSONDecodeError"

\* line 111
EmptyPlan == PlanObj(JList(<<>>), JList(<<>>))

\* lines 112-113: len(plan.get(k) or []) of the log line
LenRaises(plan, k) ==
    LET x == Get(plan.v, k) IN JTruthy(x) /\ x.t \notin {"str", "list", "obj"}

PlanEmr(state, text) ==
    LET r == ParseJsonFromLlm(text)
        plan == IF r.ok THEN r.v ELSE EmptyPlan
    IN  IF ~r.ok /\ ~CaughtByPlanEmr(r.error) THEN Raises(r.error)
        ELSE IF plan.t # "obj" THEN Raises("AttributeError")
        ELSE IF LenRaises(plan, "push_fhir") \/ LenRaises(plan, "get_fhir") THEN Raises("TypeError")
        ELSE Returns(Dict2("request_plan", plan, "reasoning", Prefix(text, REASONING_CAP)))

\* ---- persist_mapping, lines 117-136
\* lines 119, 122-123: request_plan.get(k) or []
SpecsOfPlan(state, k) ==
    LET got == StateGet(state, "request_plan")
        plan == IF got # None /\ JTruthy(got[1]) THEN got[1].v ELSE NoKeys
        x == Get(plan, k)
    IN  IF JTruthy(x) THEN x ELSE JList(<<>>)

\* lines 125-126: every element validates; a string or a mapping is walked
\* by characters or by keys, none of which is a request spec
AllValidate(x) == x.t = "list" /\ \A i \in DOMAIN x.v : ValidSpec(x.v[i])

\* lines 124-129: the mapping, dumped
DumpMapping(push, get) ==
    [push_fhir |-> [i \in DOMAIN push.v |-> DumpSpec(push.v[i])],
     get_fhir |-> [i \in DOMAIN get.v |-> DumpSpec(get.v[i])]]

\* lines 130-135: what the store does with the upsert
UpsertOutcomes == {"saved", "raised", "ImportError"}

\* line 136: the success the stage reports after the upsert
SuccessAfter_Saved(upsert) == upsert = "saved"
SuccessAfter(upsert) == TRUE

PersistMapping(state, upsert) ==
    LET push == SpecsOfPlan(state, "push_fhir")
        get == SpecsOfPlan(state, "get_fhir")
    IN  IF ~AllValidate(push) \/ ~AllValidate(get) THEN Raises("ValidationError")
        ELSE Returns(Dict2("final_mapping", DumpMapping(push, get), "success", SuccessAfter(upsert)))

\* ---- a run, lines 158-178
ApiDocUrls == {"", "https://acme-emr.example/docs"}
Bundles == {"bundle"}
EmrIds == {"", "acme"}
RunKeys == {None, Some(<<"g", " ">>)}
ConfigKeys == {None, Some(<<" ">>), Some(<<"c">>)}

\* lines 168-174
InitialState(url, bundle, emr, key) ==
    [k \in InputFields |->
        CASE k = "api_doc_url" -> url
          [] k = "fhir_bundle" -> bundle
          [] k = "emr_id" -> emr
          [] k = "groq_api_key" -> key
          [] k = "groq_model" -> None]

NoAnswers == [split_queries |-> None, plan_emr |-> None]

InitAgent ==
    /\ ag_pc = "idle"
    /\ ag_state = NoState
    /\ ag_initial = NoState
    /\ ag_cfg = [groq |-> None, tavily |-> None]
    /\ ag_trace = <<>>
    /\ ag_err = None
    /\ ag_llm = NoAnswers
    /\ ag_upsert = None
    /\ ag_fetch = None

\* run_emr_mapping_agent up to the first node
AgentRun ==
    /\ ag_pc = "idle"
    /\ \E url \in ApiDocUrls, bundle \in Bundles, emr \in EmrIds, key \in RunKeys,
          cfg_key \in ConfigKeys, tavily \in TavilyKeys :
        /\ ag_state' = InitialState(url, bundle, emr, key)
        /\ ag_initial' = InitialState(url, bundle, emr, key)
        /\ ag_cfg' = [groq |-> cfg_key, tavily |-> tavily]
    /\ ag_pc' = NextNode("START")
    /\ ag_trace' = <<>>
    /\ ag_err' = None
    /\ ag_llm' = NoAnswers
    /\ ag_upsert' = None
    /\ ag_fetch' = None

\* a node has run: its update is merged and the next node is due, or its
\* exception ends the run
Ran(stage, r) ==
    /\ ag_trace' = Append(ag_trace, stage)
    /\ IF r.raised
       THEN /\ ag_pc' = "raised"
            /\ ag_err' = Some(r.error)
            /\ ag_state' = ag_state
       ELSE /\ ag_pc' = NextNode(stage)
            /\ ag_err' = None
            /\ ag_state' = Merge(ag_state, r.delta)
    /\ UNCHANGED <<ag_initial, ag_cfg>>

\* lines 49-55 and 98-107: the model is asked; it answers with a text, the
\* call fails, or there is no key to ask with
LlmErrors == {"APIConnectionError"}

AgentSplitQueries ==
    /\ ag_pc = "split_queries"
    /\ IF LlmKey(ag_state["groq_api_key"], ag_cfg.groq) = <<>>
       THEN Ran("split_queries", Raises("ValueError")) /\ ag_llm' = ag_llm
       ELSE \/ \E e \in LlmErrors :
                Ran("split_queries", Raises(e)) /\ ag_llm' = ag_llm
            \/ \E text \in SplitTexts :
                /\ Ran("split_queries", SplitQueries(ag_state, text))
                /\ ag_llm' = [ag_llm EXCEPT !.split_queries = Some(text)]
    /\ UNCHANGED <<ag_upsert, ag_fetch>>

AgentSearchDocs ==
    /\ ag_pc = "search_docs"
    /\ LET n == Len(Capped(NodeQueries(ag_state))) IN
       \E client_p, client_s \in BOOLEAN,
          resps_p \in [1..n -> AgentTavilyResponses], resps_s \in [1..n -> AgentDdgResponses] :
            Ran("search_docs",
                SearchDocsNode(ag_state, ag_cfg.tavily, client_p, resps_p, client_s, resps_s))
    /\ UNCHANGED <<ag_llm, ag_upsert, ag_fetch>>

AgentFetchDocs ==
    /\ ag_pc = "fetch_docs"
    /\ LET urls == UrlsOf(ag_state) IN
       \E outcome \in [{urls[i] : i \in DOMAIN urls} -> FetchOutcomes] :
            /\ Ran("fetch_docs", FetchDocsNode(ag_state, outcome))
            /\ ag_fetch' = Some(outcome)
    /\ UNCHANGED <<ag_llm, ag_upsert>>

AgentPlanEmr ==
    /\ ag_pc = "plan_emr"
    /\ IF LlmKey(ag_state["groq_api_key"], ag_cfg.groq) = <<>>
       THEN Ran("plan_emr", Raises("ValueError")) /\ ag_llm' = ag_llm
       ELSE \/ \E e \in LlmErrors :
                Ran("plan_emr", Raises(e)) /\ ag_llm' = ag_llm
            \/ \E text \in PlanTexts :
                /\ Ran("plan_emr", PlanEmr(ag_state, text))
                /\ ag_llm' = [ag_llm EXCEPT !.plan_emr = Some(text)]
    /\ UNCHANGED <<ag_upsert, ag_fetch>>

AgentPersistMapping ==
    /\ ag_pc = "persist_mapping"
    /\ \E upsert \in UpsertOutcomes :
        LET r == PersistMapping(ag_state, upsert) IN
        /\ Ran("persist_mapping", r)
        /\ ag_upsert' = IF r.raised THEN None ELSE Some(upsert)
    /\ UNCHANGED <<ag_llm, ag_fetch>>

-----------------------------------------------------------------------------
(* Mapping templating engine, agent/emr_runner.py lines 10-42 and 82-84.   *)
(* Template strings, paths and bundle keys are sequences of characters.    *)

StartsWith(s, p) == Len(s) >= Len(p) /\ SubSeq(s, 1, Len(p)) = p
EndsWith(s, p) == Len(s) >= Len(p) /\ SubSeq(s, Len(s) - Len(p) + 1, Len(s)) = p

\* line 34
IsPlaceholder(v) ==
    v.t = "str" /\ StartsWith(v.v, <<"{", "{">>) /\ EndsWith(v.v, <<"}", "}">>)

\* line 35: v[2:-2].strip()
PathOf(v) == Strip(SubSeq(v.v, 3, Len(v.v) - 2))

\* line 11 and 13: path.replace("]", "").split("[") and part.split("."),
\* in order; an empty segment is skipped by line 15
RECURSIVE Segments(_, _)
Segments(path, seg) ==
    IF path = <<>> THEN (IF seg = <<>> THEN <<>> ELSE <<seg>>)
    ELSE IF Head(path) = "]" THEN Segments(Tail(path), seg)
    ELSE IF Head(path) \in {"[", "."}
    THEN (IF seg = <<>> THEN <<>> ELSE <<seg>>) \o Segments(Tail(path), <<>>)
    ELSE Segments(Tail(path), Append(seg, Head(path)))

Digits == <<"0", "1", "2", "3", "4", "5", "6", "7", "8", "9">>
\* characters that str.isdigit accepts and int rejects: the superscript two
\* stands for the digits that are not decimal digits
OtherDigits == {"^2"}
IsDecimal(c) == \E d \in DOMAIN Digits : Digits[d] = c
\* seg.isdigit()
IsDigit(seg) == seg # <<>> /\ \A i \in DOMAIN seg : IsDecimal(seg[i]) \/ seg[i] \in OtherDigits
DigitValue(c) == (CHOOSE d \in DOMAIN Digits : Digits[d] = c) - 1
\* int(seg), for a seg of decimal digits
RECURSIVE ToInt(_)
ToInt(seg) ==
    IF seg = <<>> THEN 0
    ELSE 10 * ToInt(SubSeq(seg, 1, Len(seg) - 1)) + DigitValue(seg[Len(seg)])

\* an exception, where a value was due
PyRaise(e) == [t |-> "raise", e |-> e]
\* int(seg) raises ValueError on a digit that is not decimal
IntRaises(seg) == \E i \in DOMAIN seg : ~IsDecimal(seg[i])

\* lines 17-22: one step of the walk
Step(obj, seg) ==
    IF obj.t = "obj" THEN Get(obj.v, seg)
    ELSE IF obj.t = "list" /\ IsDigit(seg)
    THEN (IF IntRaises(seg) THEN PyRaise("ValueError")
          ELSE IF ToInt(seg) < Len(obj.v) THEN obj.v[ToInt(seg) + 1] ELSE JNull)
    ELSE JNull

\* lines 12-25
RECURSIVE Walk(_, _)
Walk(obj, segs) ==
    IF segs = <<>> THEN obj
    ELSE LET nxt == Step(obj, Head(segs)) IN
         IF nxt = JNull \/ nxt.t = "raise" THEN nxt ELSE Walk(nxt, Tail(segs))

\* lines 10-25: _get_path
GetPath(obj, path) == Walk(obj, Segments(path, <<>>))

\* line 42: a scalar is returned as it is
ScalarResult_Null(t) == JNull
ScalarResult(t) == t

\* line 29: the engine does nothing at all
Skips(t, mapping) == ~JTruthy(mapping) \/ t = JNull

\* an exception raised while an element is built leaves the comprehension
Built(kids, whole) ==
    IF \E k \in DOMAIN kids : kids[k].t = "raise"
    THEN kids[CHOOSE k \in DOMAIN kids : kids[k].t = "raise"]
    ELSE whole

\* lines 28-42: _apply_fhir_mapping
RECURSIVE ApplyFhirMapping(_, _, _)
ApplyFhirMapping(t, mapping, bundle) ==
    IF Skips(t, mapping) THEN t
    ELSE IF t.t = "obj"
    THEN LET out == [k \in DOMAIN t.v |->
                        IF IsPlaceholder(t.v[k]) THEN GetPath(bundle, PathOf(t.v[k]))
                        ELSE ApplyFhirMapping(t.v[k], mapping, bundle)]
         IN  Built(out, JObj(out))
    ELSE IF t.t = "list"
    THEN LET out == [i \in DOMAIN t.v |-> ApplyFhirMapping(t.v[i], mapping, bundle)]
         IN  Built(out, JList(out))
    ELSE ScalarResult(t)

\* the mapping and sequence nodes of t, by their place under `at`
AtKey(k) == [key |-> k]
AtIndex(i) == [index |-> i]
RECURSIVE Containers(_, _)
Containers(t, at) ==
    IF t.t = "obj"
    THEN {at} \cup UNION {Containers(t.v[k], Append(at, AtKey(k))) : k \in DOMAIN t.v}
    ELSE IF t.t = "list"
    THEN {at} \cup UNION {Containers(t.v[i], Append(at, AtIndex(i))) : i \in DOMAIN t.v}
    ELSE {}

\* lines 28-42, object identity: the nodes of the template that the value
\* returned for the node at `at` holds as the same object.  Line 30 and
\* line 42 return the argument itself; lines 32 and 41 build a new object.
RECURSIVE SharedNodes(_, _, _)
SharedNodes(t, mapping, at) ==
    IF Skips(t, mapping) THEN Containers(t, at)
    ELSE IF t.t = "obj"
    THEN UNION {IF IsPlaceholder(t.v[k]) THEN {}
                ELSE SharedNodes(t.v[k], mapping, Append(at, AtKey(k))) : k \in DOMAIN t.v}
    ELSE IF t.t = "list"
    THEN UNION {SharedNodes(t.v[i], mapping, Append(at, AtIndex(i))) : i \in DOMAIN t.v}
    ELSE Containers(t, at)

\* lines 82-84: the body sent for a spec
BodyOf(spec, bundle) ==
    LET body_template == Get(spec, "body_template")
        got == Get(spec, "fhir_mapping")
        fhir_mapping == IF JTruthy(got) THEN got ELSE JObj(NoKeys)
    IN  IF body_template # JNull THEN ApplyFhirMapping(body_template, fhir_mapping, bundle)
        ELSE JNull

\* lines 82-84, object identity: the template nodes the body shares
SharedOf(spec) ==
    LET body_template == Get(spec, "body_template")
        got == Get(spec, "fhir_mapping")
        fhir_mapping == IF JTruthy(got) THEN got ELSE JObj(NoKeys)
    IN  IF body_template # JNull THEN SharedNodes(body_template, fhir_mapping, <<>>) ELSE {}

\* ---- _build_headers, lines 45-52, and line 80
\* str(v) of a header value
Str(v) ==
    CASE v.t = "str" -> v.v
      [] v.t = "num" -> <<Digits[v.v + 1]>>
      [] v.t = "bool" -> IF v.v THEN <<"True">> ELSE <<"False">>
      [] v.t = "null" -> <<"None">>

\* credentials.get(k), as a truth value and as a value
HasCred(creds, k) == k \in DOMAIN creds /\ creds[k] # <<>>

\* lines 45-52
BuildHeaders(spec, credentials) ==
    LET got == Get(spec, "headers")
        headers == IF JTruthy(got) THEN got.v ELSE NoKeys
        creds == IF credentials = None THEN NoKeys ELSE credentials[1]
        with_token == IF HasCred(creds, "api_token")
                      THEN Store(headers, "Authorization", JStr(<<"Bearer ">> \o creds["api_token"]))
                      ELSE headers
        with_id == IF HasCred(creds, "client_id")
                   THEN Store(with_token, "client-id", JStr(creds["client_id"]))
                   ELSE with_token
    IN  [k \in DOMAIN with_id |-> Str(with_id[k])]

\* line 80: headers.setdefault("Content-Type", "application/json")
SentHeaders(spec, credentials) ==
    LET headers == BuildHeaders(spec, credentials) IN
    IF "Content-Type" \in DOMAIN headers THEN headers
    ELSE Store(headers, "Content-Type", <<"application/json">>)

P(path) == JStr(<<"{", "{">> \o path \o <<"}", "}">>)

\* bundles: a mapping with a string, a list and a nested mapping; one with
\* a list of resources; an empty one
FhirBundles ==
    { JObj(Dict3(<<"a">>, JStr(<<"v">>), <<"l">>, JList(<<JNum(7), JObj(Dict1(<<"a">>, JBool(TRUE)))>>),
                 <<"b">>, JObj(Dict1(<<"c">>, JNull)))),
      JObj(Dict2(<<"entry">>, JList(<<JObj(Dict1(<<"resource">>, JObj(Dict1(<<"id">>, JStr(<<"42">>)))))>>),
                 <<"a">>, JList(<<JNum(1), JNum(2)>>))),
      JObj(Dict1(<<"l">>, JList(<<>>))),
      JObj(NoKeys) }

\* body templates: placeholders for paths, plain scalars, nesting
BodyTemplates ==
    { JObj(NoKeys),
      JList(<<>>),
      JStr(<<"{", "{", "a", "}", "}">>),
      JNum(0),
      JObj(Dict2(<<"id">>, P(<<"a">>), <<"n">>, JNum(5))),
      JObj(Dict2(<<"id">>, P(<<" ", "b", ".", "c", " ">>), <<"s">>, JStr(<<"{", "{", "a", "}">>))),
      JObj(Dict3(<<"x">>, P(<<"l", "[", "1", "]", ".", "a">>), <<"y">>, P(<<"l", "[", "2", "]">>),
                 <<"z">>, JNull)),
      JObj(Dict2(<<"x">>, P(<<"l", ".", "0">>), <<"y">>, P(<<"l", "[", "a", "]">>))),
      JObj(Dict2(<<"w">>, P(<<>>), <<"f">>, JBool(FALSE))),
      JObj(Dict1(<<"q">>, P(<<"a", ".", "b">>))),
      JObj(Dict3(<<"e">>, P(<<"entry", "[", "0", "]", ".", "resource", ".", "id">>),
                 <<"o">>, P(<<"a", "[", "5", "]">>), <<"v">>, P(<<"a", ".", "b", ".", "c">>))),
      JObj(Dict1(<<"x">>, P(<<"l", "[", "^2", "]">>))),
      JObj(Dict2(<<"in">>, JObj(Dict2(<<"id">>, P(<<"z">>), <<"s">>, JStr(<<>>))),
                 <<"of">>, JList(<<P(<<"a">>), JObj(Dict1(<<"id">>, P(<<"b">>))), JNum(1)>>))),
      JList(<<JObj(Dict1(<<"id">>, P(<<"l", "[", "0", "]">>))), JStr(<<"a", ".", "b">>), JNull>>) }

\* the fhir_mapping of a spec: missing, None, empty, or a map
FhirMappings ==
    { None, Some(JNull), Some(JObj(NoKeys)), Some(JObj(Dict1(<<"a">>, JStr(<<"i", "d">>)))) }

\* the headers of a spec: missing, None, or a map
SpecHeaders ==
    { None, Some(JNull),
      Some(JObj(Dict2("Authorization", JStr(<<"Basic x">>), "X-Trace", JNum(7)))),
      Some(JObj(Dict2("Content-Type", JStr(<<"text/xml">>), "client-id", JStr(<<"own">>)))) }

\* the credential records: none, empty, a static token, a client pair with
\* or without a base URL, an empty token
Credentials ==
    { None, Some(NoKeys),
      Some(Dict1("api_token", <<"tok">>)),
      Some(Dict1("api_token", <<>>)),
      Some(Dict2("api_token", <<"tok">>, "client_id", <<"cid">>)),
      Some(Dict2("client_id", <<"cid">>, "client_secret", <<"sec">>)),
      Some(Dict3("client_id", <<"cid">>, "client_secret", <<"sec">>, "base_url", <<"https://emr">>)) }

\* a request spec with the body template, the mapping and the headers
SpecWith(template, mapping, headers) ==
    [k \in {"body_template"} \cup (IF mapping = None THEN {} ELSE {"fhir_mapping"})
            \cup (IF headers = None THEN {} ELSE {"headers"}) |->
        CASE k = "body_template" -> template
          [] k = "fhir_mapping" -> mapping[1]
          [] k = "headers" -> headers[1]]

ApplyQuiet ==
    /\ ap_pc = "idle"
    /\ ap_spec = NoKeys
    /\ ap_bundle = JObj(NoKeys)
    /\ ap_credentials = None
    /\ ap_headers = None
    /\ ap_body = None
    /\ ap_shared = {}

\* an iteration of execute_request_plan is about to build the request of a
\* spec
InitApply ==
    /\ ap_pc = "ready"
    /\ ap_spec \in {SpecWith(t, m, h) :
                        t \in BodyTemplates \cup {JNull}, m \in FhirMappings, h \in SpecHeaders}
    /\ ap_bundle \in FhirBundles
    /\ ap_credentials \in Credentials
    /\ ap_headers = None
    /\ ap_body = None
    /\ ap_shared = {}

\* lines 79-84: the headers and the body of the request are built; an
\* exception of the engine leaves execute_request_plan
ApplyBody ==
    /\ ap_pc = "ready"
    /\ LET body == BodyOf(ap_spec, ap_bundle) IN
       IF body.t = "raise"
       THEN /\ ap_pc' = "raised"
            /\ ap_body' = None
            /\ ap_headers' = None
            /\ ap_shared' = {}
       ELSE /\ ap_pc' = "done"
            /\ ap_body' = Some(body)
            /\ ap_headers' = Some(SentHeaders(ap_spec, ap_credentials))
            /\ ap_shared' = SharedOf(ap_spec)
    /\ UNCHANGED <<ap_spec, ap_bundle, ap_credentials>>

-----------------------------------------------------------------------------
(* Transcription status poll, services/ekascribe.py lines 115-123 and      *)
(* 140-183.                                                                *)

MAX_POLL_ATTEMPTS == 120

\* what the status endpoint may answer: a status code and a body that is
\* empty, a JSON document or some other text; or no answer at all
StatusCodes == {200, 206, 202, 404, 500}
Bodies == {"empty", "json", "text"}
Answer(status, body) == [status |-> status, body |-> body]
NoAnswer == [error |-> "TransportError"]
StatusAnswers == {Answer(c, b) : c \in StatusCodes, b \in Bodies} \cup {NoAnswer}

NoData == [kind |-> "{}"]
StatusData(status) == [kind |-> "json", of |-> status]

\* lines 115-123: get_status.  The GET may raise; r.json() is called on
\* every body that is not empty and raises when the body is not JSON
GetStatus(answer) ==
    IF "error" \in DOMAIN answer THEN PyRaise(answer.error)
    ELSE IF answer.body = "empty" THEN [t |-> "ok", status_code |-> answer.status, data |-> NoData]
    ELSE IF answer.body = "json"
         THEN [t |-> "ok", status_code |-> answer.status, data |-> StatusData(answer.status)]
    ELSE PyRaise("JSONDecodeError")

PollReturned(data) == [kind |-> "returned", data |-> data]
PollRaised(e) == [kind |-> "raised", error |-> e]
NoOutcome == [kind |-> "none"]

\* lines 170-178: what one iteration makes of the status it got
AfterStatus(status_code, data) ==
    IF status_code = 200 THEN PollReturned(data)
    ELSE IF status_code = 206 THEN PollReturned(data)
    ELSE IF status_code # 202 THEN PollRaised("RuntimeError")
    ELSE NoOutcome

InitPoll ==
    /\ tr_pc = "idle"
    /\ tr_attempt = 0
    /\ tr_statuses = <<>>
    /\ tr_requests = 0
    /\ tr_last = NoOutcome
    /\ tr_ret = NoOutcome

\* lines 140-167: the upload and the init of the transaction, after which
\* the poll begins, unless one of them raised
EarlyErrors == {"ValueError", "HTTPStatusError"}

TranscribeBegin ==
    /\ tr_pc = "idle"
    /\ \/ tr_pc' = "polling" /\ tr_ret' = NoOutcome
       \/ \E e \in EarlyErrors : tr_pc' = "raised" /\ tr_ret' = PollRaised(e)
    /\ UNCHANGED <<tr_attempt, tr_statuses, tr_requests, tr_last>>

\* lines 168-181: one iteration of the loop, with its sleep
PollStatus ==
    /\ tr_pc = "polling"
    /\ tr_attempt < MAX_POLL_ATTEMPTS
    /\ tr_requests' = tr_requests + 1
    /\ \E answer \in StatusAnswers :
        LET got == GetStatus(answer) IN
        /\ tr_last' = answer
        /\ IF got.t = "raise"
           THEN /\ tr_pc' = "raised"
                /\ tr_ret' = PollRaised(got.e)
                /\ UNCHANGED <<tr_attempt, tr_statuses>>
           ELSE LET outcome == AfterStatus(got.status_code, got.data) IN
                /\ tr_statuses' = Append(tr_statuses, got.status_code)
                /\ IF outcome = NoOutcome
                   THEN /\ tr_pc' = "polling"
                        /\ tr_attempt' = tr_attempt + 1
                        /\ tr_ret' = tr_ret
                   ELSE /\ tr_pc' = outcome.kind
                        /\ tr_attempt' = tr_attempt
                        /\ tr_ret' = outcome

\* lines 182-183: the loop ran out
PollTimeout ==
    /\ tr_pc = "polling"
    /\ tr_attempt = MAX_POLL_ATTEMPTS
    /\ tr_pc' = "raised"
    /\ tr_ret' = PollRaised("TimeoutError")
    /\ UNCHANGED <<tr_attempt, tr_statuses, tr_requests, tr_last>>

-----------------------------------------------------------------------------
(* Specifications: each follows one component and leaves the others idle.  *)

\* the broker is not running
BrokerQuiet ==
    /\ InitBroker
    /\ cfg = [d \in Domains |-> DomainCfg(None, None, None, <<"u">>)]

Init == InitExec /\ InitBroker /\ InitSearch /\ InitAgent /\ ApplyQuiet /\ InitPoll

\* the plan executor alone
InitExecOnly == InitExec /\ BrokerQuiet /\ InitSearch /\ InitAgent /\ ApplyQuiet /\ InitPoll

SpecExec == InitExecOnly /\ [][NextExec]_vars

\* resolutions one after the other: a single thread calls the broker
NextBroker ==
    \/ \E t \in MainThread :
        \/ BeginFromParams(t) /\ UNCHANGED <<execVars, searchVars, agentVars, applyVars, pollVars>>
        \/ BeginDefault(t) /\ UNCHANGED <<execVars, searchVars, agentVars, applyVars, pollVars>>
        \/ BeginAbdm(t) /\ UNCHANGED <<execVars, searchVars, agentVars, applyVars, pollVars>>
        \/ Fetch(t) /\ UNCHANGED <<execVars, searchVars, agentVars, applyVars, pollVars>>
        \/ StoreEntry(t) /\ UNCHANGED <<execVars, searchVars, agentVars, applyVars, pollVars>>
        \/ ScribeFetch(t) /\ UNCHANGED <<execVars, searchVars, agentVars, applyVars, pollVars>>
        \/ ScribeWriteToken(t) /\ UNCHANGED <<execVars, searchVars, agentVars, applyVars, pollVars>>
        \/ ScribeWriteExpiry(t) /\ UNCHANGED <<execVars, searchVars, agentVars, applyVars, pollVars>>
        \/ ScribeRead(t) /\ UNCHANGED <<execVars, searchVars, agentVars, applyVars, pollVars>>
    \/ Tick /\ UNCHANGED <<execVars, searchVars, agentVars, applyVars, pollVars>>

SpecBroker == Init /\ [][NextBroker]_vars

\* resolutions of several threads, interleaved at their reads and writes of
\* the caches and at their login calls
NextConc ==
    \/ \E t \in Threads :
        \/ BeginFromParams(t) /\ UNCHANGED <<execVars, searchVars, agentVars, applyVars, pollVars>>
        \/ BeginDefault(t) /\ UNCHANGED <<execVars, searchVars, agentVars, applyVars, pollVars>>
        \/ Fetch(t) /\ UNCHANGED <<execVars, searchVars, agentVars, applyVars, pollVars>>
        \/ StoreEntry(t) /\ UNCHANGED <<execVars, searchVars, agentVars, applyVars, pollVars>>
        \/ ScribeFetch(t) /\ UNCHANGED <<execVars, searchVars, agentVars, applyVars, pollVars>>
        \/ ScribeWriteToken(t) /\ UNCHANGED <<execVars, searchVars, agentVars, applyVars, pollVars>>
        \/ ScribeWriteExpiry(t) /\ UNCHANGED <<execVars, searchVars, agentVars, applyVars, pollVars>>
        \/ ScribeRead(t) /\ UNCHANGED <<execVars, searchVars, agentVars, applyVars, pollVars>>
    \/ Tick /\ UNCHANGED <<execVars, searchVars, agentVars, applyVars, pollVars>>

SpecConc == Init /\ [][NextConc]_vars

\* one call of search_docs
InitSearchOnly == InitExec /\ BrokerQuiet /\ InitSearch /\ InitAgent /\ ApplyQuiet /\ InitPoll

NextSearch ==
    \/ SearchCall /\ UNCHANGED <<execVars, brokerVars, fetchVars, agentVars, applyVars, pollVars>>
    \/ TavilyClientFails /\ UNCHANGED <<execVars, brokerVars, fetchVars, agentVars, applyVars, pollVars>>
    \/ TavilyQuery /\ UNCHANGED <<execVars, brokerVars, fetchVars, agentVars, applyVars, pollVars>>
    \/ FallbackClientFails /\ UNCHANGED <<execVars, brokerVars, fetchVars, agentVars, applyVars, pollVars>>
    \/ FallbackQuery /\ UNCHANGED <<execVars, brokerVars, fetchVars, agentVars, applyVars, pollVars>>
    \/ FetchCall /\ UNCHANGED <<execVars, brokerVars, discoveryVars, agentVars, applyVars, pollVars>>
    \/ FetchUrl /\ UNCHANGED <<execVars, brokerVars, discoveryVars, agentVars, applyVars, pollVars>>

SpecSearch == InitSearchOnly /\ [][NextSearch]_vars

\* one run of the mapping agent
InitAgentOnly == InitExec /\ BrokerQuiet /\ InitSearch /\ InitAgent /\ ApplyQuiet /\ InitPoll

NextAgent ==
    \/ AgentRun /\ UNCHANGED <<execVars, brokerVars, searchVars, applyVars, pollVars>>
    \/ AgentSplitQueries /\ UNCHANGED <<execVars, brokerVars, searchVars, applyVars, pollVars>>
    \/ AgentSearchDocs /\ UNCHANGED <<execVars, brokerVars, searchVars, applyVars, pollVars>>
    \/ AgentFetchDocs /\ UNCHANGED <<execVars, brokerVars, searchVars, applyVars, pollVars>>
    \/ AgentPlanEmr /\ UNCHANGED <<execVars, brokerVars, searchVars, applyVars, pollVars>>
    \/ AgentPersistMapping /\ UNCHANGED <<execVars, brokerVars, searchVars, applyVars, pollVars>>

SpecAgent == InitAgentOnly /\ [][NextAgent]_vars

\* the body of one spec
InitApplyOnly == InitExec /\ BrokerQuiet /\ InitSearch /\ InitAgent /\ InitApply /\ InitPoll

NextApply == ApplyBody /\ UNCHANGED <<execVars, brokerVars, searchVars, agentVars, pollVars>>

SpecApply == InitApplyOnly /\ [][NextApply]_vars

\* the status poll of one transcription
InitPollOnly == InitExec /\ BrokerQuiet /\ InitSearch /\ InitAgent /\ ApplyQuiet /\ InitPoll

NextPoll ==
    \/ TranscribeBegin /\ UNCHANGED <<execVars, brokerVars, searchVars, agentVars, applyVars>>
    \/ PollStatus /\ UNCHANGED <<execVars, brokerVars, searchVars, agentVars, applyVars>>
    \/ PollTimeout /\ UNCHANGED <<execVars, brokerVars, searchVars, agentVars, applyVars>>

SpecPoll == InitPollOnly /\ [][NextPoll]_vars

-----------------------------------------------------------------------------
(* Properties of the plan executor                                         *)

Specs == SelectedSpecs(request_plan, execute_get)

\* the issued calls are the selected sequence's specs, in list order
IssuedInOrder == \A k \in DOMAIN issued : k <= Len(Specs) /\ issued[k].spec = Specs[k].id

\* C1: when the call for spec k is answered with a status >= 400, no later
\* spec is issued and the call returns (False, that status, that body capped
\* to 2000 characters, "HTTP <status>: <first 500 characters of the body>").
C1_HaltOnHttpError ==
    /\ IssuedInOrder
    /\ \A k \in DOMAIN issued :
        LET o == issued[k] IN
        (~o.raised /\ o.status >= 400) =>
            /\ k = Len(issued)
            /\ ex_pc = "done"
            /\ ex_ret = Ret(FALSE, Some(o.status), Slice(o.text, 2000),
                            Some(<<"HTTP", o.status, Slice(o.text, 500)>>))

\* two specs or more, the first answered 500, the call over
C1_Witness ==
    /\ Len(Specs) >= 2
    /\ ex_pc = "done"
    /\ Len(issued) = 1
    /\ ~issued[1].raised /\ issued[1].status = 500
    /\ issued[1].text.len > 2000

\* the list of the requested direction is missing, None or empty
RequestedListEmpty ==
    LET key == IF execute_get THEN "get_fhir" ELSE "push_fhir" IN
    \/ key \notin DOMAIN request_plan
    \/ request_plan[key] = JNull
    \/ request_plan[key] = JList(<<>>)

OtherListNonEmpty ==
    LET key == IF execute_get THEN "push_fhir" ELSE "get_fhir" IN
    /\ key \in DOMAIN request_plan
    /\ request_plan[key].t = "list"
    /\ request_plan[key].v # <<>>

\* C2: a call whose requested direction has a missing, None or empty list
\* returns (False, None, "", "No request specs in plan") and issues no HTTP
\* call, whatever the other direction holds.
C2_EmptyPlanFails ==
    (ex_pc # "idle" /\ RequestedListEmpty) =>
        /\ ex_pc = "done"
        /\ issued = <<>>
        /\ ex_ret = Ret(FALSE, None, EmptyText, Some(<<"No request specs in plan">>))

C2_Witness ==
    /\ ex_pc = "done"
    /\ execute_get
    /\ RequestedListEmpty
    /\ OtherListNonEmpty

-----------------------------------------------------------------------------
(* Properties of the credential broker                                     *)

\* a resolution by client credentials that got as far as its cache check
Checked(r) == r.strategy \in {"pair", "default_pair"} /\ r.key # <<>>

Finished(r) == r.pc = "done" /\ r.ret.kind = "ok"

\* the entry the resolution read was present and not yet expired at its check
SawFresh(r) == r.seen.present /\ r.now < r.seen.expires_at

\* C4: for a key resolved by per-call client credentials, a resolution made
\* before the cached entry's expires_at performs no login exchange and returns
\* the token of the resolution that stored the entry; a resolution made with
\* no entry, or at or after expires_at, performs exactly one exchange; and
\* while an entry is valid no exchange is made for its key beyond those made
\* when it was stored.
C4_OneExchangePerWindow ==
    /\ \A t \in Threads :
        LET r == th[t] IN
        (r.strategy = "pair" /\ Checked(r) /\ Finished(r)) =>
            /\ SawFresh(r) => /\ LoginsOf(r.key) = r.n0
                              /\ r.ret.token = r.seen.access_token
            /\ ~SawFresh(r) => /\ LoginsOf(r.key) = r.n0 + 1
                               /\ Lookup(emr_connect_cache, r.key).access_token = r.ret.token
    /\ \A k \in DOMAIN emr_connect_cache :
        now < emr_connect_cache[k].expires_at => LoginsOf(k) = emr_connect_cache[k].serial

\* a second resolution, later and inside the window of the entry the first stored
C4_Witness ==
    \E t \in Threads :
        LET r == th[t] IN
        /\ r.strategy = "pair" /\ Finished(r)
        /\ SawFresh(r)
        /\ r.now > r.seen.at
        /\ r.n0 = 1

\* C5: a resolution by client credentials (per-call or configuration default,
\* scribe or emr) performs a login exchange if and only if it found no entry
\* for its key or an entry with expires_at <= now; a token it returns from
\* the cache has expires_at > the time of its check.
C5_ExchangeIffStale ==
    \A t \in Threads :
        LET r == th[t]
            stale == ~r.seen.present \/ r.seen.expires_at <= r.now
        IN  Checked(r) =>
            /\ r.pc \in {"fetch", "sfetch"} => stale /\ ~r.exchanged
            /\ r.pc = "sread" => ~stale /\ ~r.exchanged
            /\ r.pc \in {"store", "swrite1", "swrite2"} => stale /\ r.exchanged
            /\ r.pc = "done" => (r.exchanged <=> stale)
            /\ (r.pc = "done" /\ ~r.exchanged) =>
                /\ r.ret.kind = "ok"
                /\ r.ret.token = r.seen.access_token
                /\ r.seen.expires_at > r.now

\* a configuration-default resolution made exactly at expires_at, which exchanged
C5_Witness ==
    \E t \in Threads :
        LET r == th[t] IN
        /\ r.strategy = "default_pair" /\ Finished(r)
        /\ r.seen.present /\ r.seen.expires_at = r.now
        /\ r.exchanged

\* the lifetime a login response declares, 1800 when it declares none
DeclaredLifetime(tok) == IF tok.expires_in = None THEN 1800 ELSE tok.expires_in[1]

\* C6: every cache entry stores expires_at = (clock at the store) + (the
\* expires_in its login response declared) - 60, in the keyed cache and in
\* the scribe default cache.
C6_ExpiryFromResponse ==
    /\ \A k \in DOMAIN emr_connect_cache :
        LET e == emr_connect_cache[k] IN
        e.expires_at = e.at + DeclaredLifetime(e.access_token) - 60
    /\ (/\ scribe_token_cache.access_token # None
        /\ \A t \in Threads : th[t].pc # "swrite2") =>
            scribe_token_cache.expires_at =
                Some(scribe_token_cache.at + DeclaredLifetime(scribe_token_cache.access_token[1]) - 60)

\* the identity a resolution asks a token for: domain, client id, secret and
\* the base URL without trailing slashes
Identity(r) == <<r.req[1], r.req[2], r.req[3], RStripSlash(r.req[4])>>

\* C7: a resolution by client credentials returns only a token minted for its
\* own (domain, client_id, client_secret, base_url), and every cached entry
\* sits under the key it was minted for.
C7_TokensIsolated ==
    /\ \A t \in Threads :
        LET r == th[t] IN
        (Checked(r) /\ Finished(r)) => r.ret.token.minted = Identity(r)
    /\ \A k \in DOMAIN emr_connect_cache :
        emr_connect_cache[k].access_token.minted = <<k[1], k[2], k[3], RStripSlash(k[4])>>

\* a resolution that exchanged although the other domain, or another base
\* URL, held a valid entry for the same client id and secret
C7_Witness ==
    \E t \in Threads : \E k \in DOMAIN emr_connect_cache :
        LET r == th[t] IN
        /\ Checked(r) /\ Finished(r) /\ r.exchanged
        /\ k # r.key /\ k[2] = r.key[2] /\ k[3] = r.key[3]
        /\ k[1] # r.key[1] \/ k[4] # r.key[4]
        /\ emr_connect_cache[k].at <= r.now
        /\ r.now < emr_connect_cache[k].expires_at

\* C8: with per-call parameters the priority is static token, then client
\* id + secret, then the configuration default: a supplied api_token is
\* returned (stripped) at once, with no login exchange and the caches left
\* as they were, even when a pair is supplied too; the pair is used only
\* without a token, the default only with neither.
C8_ParamPriority ==
    /\ [](\A t \in Threads :
            LET r == th[t] IN
            r.pc # "idle" =>
                /\ r.given_token # None =>
                    /\ r.strategy = "static"
                    /\ r.pc = "done" /\ ~r.exchanged /\ r.key = <<>>
                    /\ r.ret = Ok(StaticToken(Strip(Val(r.given_token))), r.base)
                /\ (r.given_token = None /\ r.given_pair) => r.strategy = "pair"
                /\ r.strategy = "static" => r.given_token # None
                /\ r.strategy = "pair" => r.given_token = None /\ r.given_pair
                /\ r.strategy \in {"default_pair", "default_static", "invalid"} =>
                        r.given_token = None /\ ~r.given_pair)
    /\ [][\A t \in Threads :
            (th'[t] # th[t] /\ th'[t].given_token # None) =>
                /\ emr_connect_cache' = emr_connect_cache
                /\ scribe_token_cache' = scribe_token_cache
                /\ logins' = logins]_vars

\* a token and a complete pair supplied together, resolved to the token
C8_Witness ==
    \E t \in Threads :
        LET r == th[t] IN
        /\ r.pc = "done" /\ r.given_token # None /\ r.given_pair
        /\ r.ret.kind = "ok" /\ r.ret.token = StaticToken(<<"k">>)

\* C9: the check, the exchange and the store are atomic per key: no two
\* resolutions obtain a token for the same key by an exchange after finding
\* the same absent or expired entry.
C9_AtMostOneExchange ==
    \A t1, t2 \in Threads :
        LET r1 == th[t1]
            r2 == th[t2]
        IN  (/\ t1 # t2
             /\ Checked(r1) /\ Checked(r2)
             /\ r1.key = r2.key
             /\ r1.seen = r2.seen)
            => ~(r1.tok # NoTok /\ r2.tok # NoTok)

\* C10: every stored entry pairs a token with the expiry computed from the
\* same login exchange, also in the scribe default cache once no resolution
\* is between its two writes, and a resolution that returns a cached token
\* returns the token whose expiry it checked.
C10_EntriesPaired ==
    /\ \A k \in DOMAIN emr_connect_cache :
        emr_connect_cache[k].exp_of = emr_connect_cache[k].access_token.id
    /\ (/\ scribe_token_cache.access_token # None
        /\ \A t \in Threads : th[t].pc # "swrite2") =>
            scribe_token_cache.exp_of = scribe_token_cache.access_token[1].id
    /\ \A t \in Threads :
        LET r == th[t] IN
        (Checked(r) /\ Finished(r) /\ ~r.exchanged) => r.ret.token.id = r.seen.exp_of

-----------------------------------------------------------------------------
(* Properties of the mapping agent                                         *)

StageOrder == <<"split_queries", "search_docs", "fetch_docs", "plan_emr", "persist_mapping">>

\* the run ended by an exception of its n-th stage
RaisedAt(n) == ag_pc = "raised" /\ Len(ag_trace) = n

\* C11: the stages of a run execute one after the other in the order
\* split_queries, search_docs, fetch_docs, plan_emr, persist_mapping, each
\* at most once and without branch or loop; the stage due next is the
\* successor of the last one that returned, and a run that reaches the end
\* has executed all five.
C11_StagesInOrder ==
    /\ Len(ag_trace) <= Len(StageOrder)
    /\ \A i \in DOMAIN ag_trace : ag_trace[i] = StageOrder[i]
    /\ ag_pc = "END" => ag_trace = StageOrder
    /\ ag_pc \notin {"idle", "END", "raised"} =>
        /\ Len(ag_trace) < Len(StageOrder)
        /\ ag_pc = StageOrder[Len(ag_trace) + 1]
    /\ ag_pc = "raised" => ag_trace # <<>>

\* a run that reached the end
C11_Witness == ag_pc = "END" /\ ag_trace = StageOrder

\* the fields each stage produces
Produces(stage) ==
    CASE stage = "split_queries" -> {"search_queries"}
      [] stage = "search_docs" -> {"doc_search_result"}
      [] stage = "fetch_docs" -> {"fetched_docs", "doc_content"}
      [] stage = "plan_emr" -> {"request_plan", "reasoning"}
      [] stage = "persist_mapping" -> {"final_mapping", "success"}

\* C12: a stage that returns sets exactly the fields it produces and leaves
\* every other field as it was, set or not set; the input fields
\* api_doc_url, fhir_bundle and emr_id keep the value the run started with.
C12_StagesWriteOwnFields ==
    /\ [][Len(ag_trace') = Len(ag_trace) + 1 =>
            LET stage == ag_trace'[Len(ag_trace')] IN
            /\ \A k \in (DOMAIN ag_state \cup DOMAIN ag_state') \ Produces(stage) :
                /\ k \in DOMAIN ag_state /\ k \in DOMAIN ag_state'
                /\ ag_state'[k] = ag_state[k]
            /\ ag_pc' # "raised" => Produces(stage) \subseteq DOMAIN ag_state'
            /\ ag_pc' = "raised" => DOMAIN ag_state' = DOMAIN ag_state]_vars
    /\ [](ag_pc # "idle" =>
            \A k \in {"api_doc_url", "fhir_bundle", "emr_id"} :
                k \in DOMAIN ag_state /\ ag_state[k] = ag_initial[k])

\* a run that reached the end with every produced field set
C12_Witness ==
    /\ ag_pc = "END"
    /\ ag_initial["emr_id"] = "acme"
    /\ ag_initial["api_doc_url"] # ""
    /\ \A n \in DOMAIN StageOrder : Produces(StageOrder[n]) \subseteq DOMAIN ag_state

\* the run has a model key
HasModelKey == ag_pc # "idle" /\ LlmKey(ag_initial["groq_api_key"], ag_cfg.groq) # <<>>

\* C13: a run with a model key, whose model calls answer with a text, never
\* ends with an exception, and at its end success is true and request_plan
\* is a mapping with the keys push_fhir and get_fhir.
C13_AlwaysCompletes ==
    HasModelKey =>
        /\ ag_pc = "raised" => ag_err[1] \in LlmErrors
        /\ ag_pc = "END" =>
            /\ ag_state["success"] = TRUE
            /\ ag_state["request_plan"].t = "obj"
            /\ {"push_fhir", "get_fhir"} \subseteq DOMAIN ag_state["request_plan"].v

\* the plan of the run as persist_mapping validates it
ValidatedPlan ==
    DumpMapping(SpecsOfPlan(ag_state, "push_fhir"), SpecsOfPlan(ag_state, "get_fhir"))

\* C14: whatever becomes of the upsert (saved, raising, store unavailable),
\* persist_mapping returns success = True and final_mapping equal to the
\* validated request plan; no exception of the store ends the run.
C14_PersistFailureNotFatal ==
    /\ ag_upsert # None =>
        /\ ag_pc = "END"
        /\ ag_state["success"] = TRUE
        /\ ag_state["final_mapping"] = ValidatedPlan
    /\ RaisedAt(5) => ag_err = Some("ValidationError")

\* a run whose upsert raised, with a spec in the plan
C14_Witness ==
    /\ ag_pc = "END"
    /\ ag_upsert = Some("raised")
    /\ ag_state["final_mapping"].push_fhir # <<>>

\* C15: for every model answer split_queries returns, and the queries it
\* returns are not empty; they are the fixed fallback set when the answer is
\* not JSON or is JSON without a non-empty queries array.
C15_QueriesNeverEmpty ==
    ag_llm.split_queries # None =>
        /\ ~RaisedAt(1)
        /\ "search_queries" \in DOMAIN ag_state
        /\ ag_state["search_queries"].queries # <<>>

\* C16: when the model's answer to plan_emr does not parse as JSON, fence
\* stripped, the stage does not raise and returns
\* request_plan = {push_fhir: [], get_fhir: []}.
C16_UnparsablePlanIsEmptyPlan ==
    (ag_llm.plan_emr # None /\ ~ParseJsonFromLlm(ag_llm.plan_emr[1]).ok) =>
        /\ ~RaisedAt(4)
        /\ "request_plan" \in DOMAIN ag_state
        /\ ag_state["request_plan"] =
                JObj([k \in {"push_fhir", "get_fhir"} |-> JList(<<>>)])

\* a fenced answer that is prose, and the run went on to its end
C16_Witness ==
    /\ ag_llm.plan_emr = Some(<<Fence, Prose, Fence>>)
    /\ ag_pc = "END"

-----------------------------------------------------------------------------
(* Properties of document discovery                                        *)

\* the raw results a backend answered in this call, in query order
RECURSIVE RawsOf(_, _)
RawsOf(log, backend) ==
    IF log = <<>> THEN <<>>
    ELSE (IF Head(log).backend = backend /\ ~Head(log).resp.failed
          THEN Head(log).resp.results ELSE <<>>) \o RawsOf(Tail(log), backend)

\* the backend whose items search_docs returns
Producer == IF sd_fallback_called THEN "ddg" ELSE "tavily"

\* C17: the result of search_docs holds no two items with one URL and no
\* item with an empty URL; each item is the one built from the first raw
\* result with its URL, in query order, and every non-empty URL answered
\* has its item.
C17_NoDuplicateUrls ==
    sd_result # None =>
        LET items == sd_result[1]
            raws == RawsOf(sd_log, Producer)
        IN  /\ \A i, j \in DOMAIN items : i # j => items[i].url # items[j].url
            /\ \A i \in DOMAIN items : items[i].url # ""
            /\ \A i \in DOMAIN items : \E n \in DOMAIN raws :
                /\ UrlOf(Producer, raws[n]) = items[i].url
                /\ \A m \in 1..(n - 1) : UrlOf(Producer, raws[m]) # items[i].url
                /\ items[i] = ItemOf(Producer, raws[n])
            /\ \A n \in DOMAIN raws :
                UrlOf(Producer, raws[n]) # "" =>
                    \E i \in DOMAIN items : items[i].url = UrlOf(Producer, raws[n])

\* two queries answered with the same URL, and a result of two items
C17_Witness ==
    /\ sd_result # None
    /\ Len(sd_result[1]) >= 2
    /\ \E a, b \in DOMAIN sd_log :
        /\ a < b
        /\ sd_log[a].backend = Producer /\ sd_log[b].backend = Producer
        /\ ~sd_log[a].resp.failed /\ ~sd_log[b].resp.failed
        /\ \E x \in DOMAIN sd_log[a].resp.results, y \in DOMAIN sd_log[b].resp.results :
            /\ UrlOf(Producer, sd_log[a].resp.results[x]) # ""
            /\ UrlOf(Producer, sd_log[a].resp.results[x]) = UrlOf(Producer, sd_log[b].resp.results[y])
            /\ sd_log[a].resp.results[x] # sd_log[b].resp.results[y]

\* C18: the secondary backend is consulted if and only if the primary
\* returned no result (unconfigured, failed as a whole, or failed or empty on
\* every query); when the primary returned a result the secondary is never
\* called and search_docs returns exactly the primary's items.
C18_FallbackIffPrimaryEmpty ==
    /\ sd_fallback_called <=> (sd_primary # None /\ sd_primary[1] = <<>>)
    /\ (\E i \in DOMAIN sd_log : sd_log[i].backend = "ddg") => sd_fallback_called
    /\ (sd_primary # None /\ sd_primary[1] # <<>>) =>
        /\ sd_pc = "done"
        /\ sd_result = sd_primary
        /\ \A i \in DOMAIN sd_log : sd_log[i].backend = "tavily"
    /\ sd_pc = "done" => sd_primary # None

\* the primary was configured and failed on every query, the secondary found
\* something
C18_Witness ==
    /\ sd_pc = "done"
    /\ sd_key # None
    /\ Len(sd_queries) >= 2
    /\ \A k \in 1..Len(sd_queries) :
        \E i \in DOMAIN sd_log : sd_log[i] = Called("tavily", k, Failed)
    /\ sd_fallback_called
    /\ sd_result # None /\ sd_result[1] # <<>>

-----------------------------------------------------------------------------
(* Properties of the templating engine                                     *)

TemplateOf(spec) == Get(spec, "body_template")

\* at every mapping value of t that is a placeholder for a path the bundle
\* lacks, r holds None
RECURSIVE NoneWhereAbsent(_, _, _)
NoneWhereAbsent(t, r, bundle) ==
    IF t.t = "obj"
    THEN /\ r.t = "obj" /\ DOMAIN r.v = DOMAIN t.v
         /\ \A k \in DOMAIN t.v :
                IF IsPlaceholder(t.v[k])
                THEN GetPath(bundle, PathOf(t.v[k])) = JNull => r.v[k] = JNull
                ELSE NoneWhereAbsent(t.v[k], r.v[k], bundle)
    ELSE IF t.t = "list"
    THEN /\ r.t = "list" /\ Len(r.v) = Len(t.v)
         /\ \A i \in DOMAIN t.v : NoneWhereAbsent(t.v[i], r.v[i], bundle)
    ELSE TRUE

\* C19: in the body built for a spec, every mapping value of the template
\* that is a {{path}} placeholder for a path absent from the bundle is None,
\* whatever the spec's fhir_mapping (a map, empty, None or missing).
C19_AbsentPathGivesNone ==
    (ap_pc = "done" /\ TemplateOf(ap_spec) # JNull) =>
        NoneWhereAbsent(TemplateOf(ap_spec), ap_body[1], ap_bundle)

\* r has the shape of t and its scalars, placeholders aside
RECURSIVE Preserved(_, _)
Preserved(t, r) ==
    IF t.t = "obj"
    THEN /\ r.t = "obj" /\ DOMAIN r.v = DOMAIN t.v
         /\ \A k \in DOMAIN t.v : IsPlaceholder(t.v[k]) \/ Preserved(t.v[k], r.v[k])
    ELSE IF t.t = "list"
    THEN /\ r.t = "list" /\ Len(r.v) = Len(t.v)
         /\ \A i \in DOMAIN t.v : Preserved(t.v[i], r.v[i])
    ELSE IsPlaceholder(t) \/ r = t

\* C20: the body built from a template has the template's mapping keys and
\* sequence lengths at every level, and every string that is not a {{...}}
\* placeholder, every number, boolean and null of the template is at its
\* place unchanged.
C20_ScalarsAndShapeKept ==
    ap_pc = "done" => Preserved(TemplateOf(ap_spec), ap_body[1])

\* a nested template with placeholders and scalars, applied with a mapping
C20_Witness ==
    /\ ap_pc = "done"
    /\ JTruthy(Get(ap_spec, "fhir_mapping"))
    /\ TemplateOf(ap_spec).t = "obj"
    /\ \E k \in DOMAIN TemplateOf(ap_spec).v : TemplateOf(ap_spec).v[k].t = "list"
    /\ ap_body[1] # TemplateOf(ap_spec)

\* C21: the body built from a template that is a mapping or a sequence
\* holds no mapping or sequence node of the template as the same object,
\* whatever the spec's fhir_mapping (a map, empty, None or missing).
C21_ResultIndependent ==
    ap_pc = "done" => ap_shared = {}

\* the value built at key k of a mapping template
BuiltAt(k) == ap_body[1].v[k]

\* C22: path navigation never raises, and on the bundle
\* {entry: [{resource: {id: "42"}}], a: [1, 2]} the path
\* entry[0].resource.id gives "42", a[5] gives None and a.b.c gives None.
C22_GetPathTotal ==
    /\ ap_pc # "raised"
    /\ ( /\ ap_pc = "done"
         /\ JTruthy(Get(ap_spec, "fhir_mapping"))
         /\ TemplateOf(ap_spec).t = "obj"
         /\ <<"e">> \in DOMAIN TemplateOf(ap_spec).v
         /\ ap_bundle.t = "obj" /\ <<"entry">> \in DOMAIN ap_bundle.v ) =>
            /\ BuiltAt(<<"e">>) = JStr(<<"42">>)
            /\ BuiltAt(<<"o">>) = JNull
            /\ BuiltAt(<<"v">>) = JNull

\* the credential record has one of the supported shapes and no empty value
SupportedCredentials(c) ==
    /\ c # None
    /\ DOMAIN c[1] \in {{"api_token"}, {"client_id", "client_secret"},
                       {"client_id", "client_secret", "base_url"}}
    /\ \A k \in DOMAIN c[1] : c[1][k] # <<>>

\* the headers the spec declares
DeclaredHeaders(spec) ==
    IF JTruthy(Get(spec, "headers")) THEN Get(spec, "headers").v ELSE NoKeys

\* C27: with a credential record of a supported shape, the headers sent
\* hold Authorization = "Bearer <token>" from the credentials, in place of
\* the spec's own; client-id when the credentials carry a client_id; every
\* other header of the spec unchanged; and Content-Type application/json
\* unless the spec set one.
C27_HeadersFromCredentials ==
    (ap_pc = "done" /\ SupportedCredentials(ap_credentials)) =>
        LET h == ap_headers[1]
            c == ap_credentials[1]
            own == DeclaredHeaders(ap_spec)
        IN  /\ "Authorization" \in DOMAIN h
            /\ h["Authorization"][1] = "Bearer "
            /\ "api_token" \in DOMAIN c => h["Authorization"] = <<"Bearer ">> \o c["api_token"]
            /\ "client_id" \in DOMAIN c =>
                "client-id" \in DOMAIN h /\ h["client-id"] = c["client_id"]
            /\ \A k \in DOMAIN own \ {"Authorization", "client-id"} :
                k \in DOMAIN h /\ (own[k].t = "str" => h[k] = own[k].v)
            /\ h["Content-Type"] =
                    IF "Content-Type" \in DOMAIN own THEN own["Content-Type"].v
                    ELSE <<"application/json">>

-----------------------------------------------------------------------------
(* Further properties of the plan executor                                 *)

\* C23: when the call for spec k raises a transport error, no spec after k
\* is issued and the call returns ok = False with the exception's message
\* as its error; no spec is issued twice within a call.
C23_HaltOnTransportError ==
    /\ \A k \in DOMAIN issued :
        issued[k].raised =>
            /\ k = Len(issued)
            /\ ex_pc = "done"
            /\ ex_ret.returned
            /\ ex_ret.ok = FALSE
            /\ ex_ret.error = Some(<<"exc", issued[k].msg>>)
    /\ \A i, j \in DOMAIN issued : i # j => issued[i].spec # issued[j].spec

\* three specs, the second call raised after the first was answered
C23_Witness ==
    /\ Len(Specs) = 3
    /\ Len(issued) = 2
    /\ ~issued[1].raised /\ issued[1].status < 400
    /\ issued[2].raised
    /\ ex_pc = "done"

\* the list the direction flag selects, as the plan holds it
FlaggedList ==
    LET key == IF execute_get THEN "get_fhir" ELSE "push_fhir" IN
    IF key \in DOMAIN request_plan /\ request_plan[key].t = "list"
    THEN request_plan[key].v ELSE <<>>

\* the calls issued are the first specs of the flagged list, one call each,
\* in list order
IssuedFromFlagged ==
    /\ Len(issued) <= Len(FlaggedList)
    /\ \A k \in DOMAIN issued : issued[k].spec = FlaggedList[k].id

\* every spec of the flagged list was issued and answered below 400
AllAnswered ==
    /\ Len(issued) = Len(FlaggedList)
    /\ \A k \in DOMAIN issued : ~issued[k].raised /\ issued[k].status < 400

\* what a call that returned ok = True returns besides
OkReturnsLast ==
    (ex_pc = "done" /\ ex_ret.ok) =>
        /\ issued # <<>>
        /\ ex_ret.status = Some(issued[Len(issued)].status)
        /\ ex_ret.body = Slice(issued[Len(issued)].text, 2000)
        /\ ex_ret.error = None

\* C24 as stated: the calls come from the flagged list in order, one each;
\* the call returns ok = True if and only if every spec of that list was
\* issued and answered below 400, and then with the status and body of the
\* last spec and no error.
C24_OkIffAllAnswered ==
    /\ IssuedFromFlagged
    /\ ex_pc = "done" => (ex_ret.ok <=> AllAnswered)
    /\ OkReturnsLast

\* C24 (amended): as stated, for a flagged list that is not empty; a
\* missing, None or empty list returns ok = False although no spec of it
\* went unanswered.
C24_OkIffNonEmptyAllAnswered ==
    /\ IssuedFromFlagged
    /\ ex_pc = "done" => (ex_ret.ok <=> (FlaggedList # <<>> /\ AllAnswered))
    /\ OkReturnsLast

\* the get list of three specs, all answered below 400, the last with a 3xx
C24_Witness ==
    /\ ex_pc = "done"
    /\ execute_get
    /\ Len(FlaggedList) = 3
    /\ AllAnswered
    /\ issued[3].status = 301
    /\ ex_ret.ok

-----------------------------------------------------------------------------
(* Further properties of document discovery and of the fetch loop          *)

\* the calls made to a backend, in the order made
CallsTo(backend) == SelectSeq(sd_log, LAMBDA e : e.backend = backend)

\* the backend's client could not be created: no query was sent
NoClient(sent) == sent # <<>> /\ sent[1].q = 0

\* the URLs of a sequence of items or documents
UrlSeq(items) == [i \in DOMAIN items |-> items[i].url]

\* the non-empty URLs of raw results, each at its first occurrence
RECURSIVE FirstUrls(_, _, _)
FirstUrls(backend, raws, seen) ==
    IF raws = <<>> THEN <<>>
    ELSE LET url == UrlOf(backend, Head(raws)) IN
         IF url = "" \/ url \in seen THEN FirstUrls(backend, Tail(raws), seen)
         ELSE <<url>> \o FirstUrls(backend, Tail(raws), seen \cup {url})

\* the visits of the fetch loop that fetched a document
FetchedVisits ==
    SelectSeq(fd_log, LAMBDA e : "failed" \in DOMAIN e.got /\ ~e.got.failed)

\* C25: a query that fails does not stop the queries after it: a backend
\* whose client exists is sent every query, in order, and what it returns
\* is what its answered queries gave, in their order, the failed ones
\* adding nothing.  A fetch that fails does not stop the fetches after it:
\* every URL is visited in order, and the documents are those of the
\* fetches that succeeded, in their order.
C25_SiblingsSurviveFailure ==
    /\ \A backend \in {"tavily", "ddg"} :
        LET sent == CallsTo(backend) IN
        ~NoClient(sent) => \A i \in DOMAIN sent : sent[i].q = i
    /\ LET sent == CallsTo("tavily") IN
       (sd_primary # None /\ sent # <<>> /\ ~NoClient(sent)) =>
            /\ Len(sent) = Len(sd_queries)
            /\ UrlSeq(sd_primary[1]) = FirstUrls("tavily", RawsOf(sd_log, "tavily"), {})
    /\ LET sent == CallsTo("ddg") IN
       (sd_pc = "done" /\ sent # <<>> /\ ~NoClient(sent)) =>
            /\ Len(sent) = Len(sd_queries)
            /\ UrlSeq(sd_result[1]) = FirstUrls("ddg", RawsOf(sd_log, "ddg"), {})
    /\ \A i \in DOMAIN fd_log :
        i <= Len(FirstDocs(fd_urls)) /\ fd_log[i].url = FirstDocs(fd_urls)[i]
    /\ fd_pc = "done" => Len(fd_log) = Len(FirstDocs(fd_urls))
    /\ UrlSeq(fd_docs) = UrlSeq(FetchedVisits)
    /\ \A j \in DOMAIN fd_docs :
        FetchedVisits[j].got.text.len <= 80000 => fd_docs[j].content = FetchedVisits[j].got.text

\* three queries, the second failed and the third brought a new URL; then
\* a fetch that failed, followed by one that succeeded
C25_Witness ==
    /\ sd_pc = "done" /\ fd_pc = "done"
    /\ LET sent == CallsTo(Producer) IN
        /\ Len(sent) = 3
        /\ ~sent[1].resp.failed /\ sent[1].resp.results # <<>>
        /\ sent[2].resp.failed
        /\ ~sent[3].resp.failed
        /\ Len(sd_result[1]) >= 2
        /\ sd_result[1][Len(sd_result[1])].url \notin
                {UrlOf(Producer, sent[1].resp.results[x]) : x \in DOMAIN sent[1].resp.results}
    /\ \E i, j \in DOMAIN fd_log :
        /\ i < j
        /\ fd_log[i].got = FetchFailed
        /\ "failed" \in DOMAIN fd_log[j].got /\ ~fd_log[j].got.failed
    /\ fd_docs # <<>>

-----------------------------------------------------------------------------
(* Further properties of the fetch_docs stage                              *)

\* the fetch_docs stage has run and every URL it was to fetch failed, or
\* the search had found no URL
NothingFetched ==
    /\ ag_fetch # None
    /\ LET urls == UrlsOf(ag_state) IN
       \A i \in DOMAIN FirstDocs(urls) : Skipped(urls[i]) \/ ag_fetch[1][urls[i]].failed

\* C26: the fetch_docs stage never ends the run with an exception.  When
\* the search found no URL, or every URL that was to be fetched failed, the
\* stage returns no documents and one of the two placeholder texts as
\* doc_content, and plan_emr is the stage that follows.
C26_FetchNeverFailsRun ==
    /\ ~RaisedAt(3)
    /\ Len(ag_trace) = 3 => ag_pc = "plan_emr" /\ ag_fetch # None
    /\ NothingFetched =>
        /\ StateGet(ag_state, "fetched_docs") = Some([docs |-> <<>>])
        /\ StateGet(ag_state, "doc_content") =
                Some(IF UrlsOf(ag_state) = <<>> THEN NoDocsFetched ELSE NoContent)
        /\ Len(ag_trace) >= 4 => ag_trace[4] = "plan_emr"

\* two URLs were found and both fetches failed; plan_emr is due
C26_Witness ==
    /\ NothingFetched
    /\ Len(UrlsOf(ag_state)) = 2
    /\ \A i \in DOMAIN UrlsOf(ag_state) : ~Skipped(UrlsOf(ag_state)[i])
    /\ ag_pc = "plan_emr"
    /\ ag_state["doc_content"] = NoContent

-----------------------------------------------------------------------------
(* Further properties of the credential broker                             *)

\* the thread's resolution ended with the error of its login exchange
LoginFailed(r) == r.pc = "done" /\ r.exchanged /\ r.ret.kind = "raised"

\* the cache entry a resolution with key k looks at, as the resolution sees it
EntryFor(k) ==
    IF k = ScribeKey
    THEN IF scribe_token_cache.access_token = None THEN Absent
         ELSE [present |-> TRUE,
               access_token |-> scribe_token_cache.access_token[1],
               expires_at |-> IF scribe_token_cache.expires_at = None THEN 0
                              ELSE scribe_token_cache.expires_at[1],
               exp_of |-> scribe_token_cache.exp_of]
    ELSE Lookup(emr_connect_cache, k)

\* the step is a login exchange of thread t that failed
LoginFails(t) == th[t].pc \in {"fetch", "sfetch"} /\ th'[t].ret.kind = "raised"

\* the step begins, on thread t, a resolution that looks up the key of the
\* resolution that has just failed
SameKeyAgain(t) ==
    /\ LoginFailed(th[t])
    /\ th'[t] # th[t]
    /\ th'[t].key = th[t].key

\* C28: a login exchange that fails writes neither cache and its error is
\* what the resolution returns: the entry of its key is the one the
\* resolution found, absent or expired, and the next resolution with that
\* key sends a login request instead of returning a token.
C28_FailedLoginKeepsCache ==
    /\ [](\A t \in MainThread :
            LoginFailed(th[t]) =>
                /\ th[t].ret.error \in LoginFailures
                /\ EntryFor(th[t].key) = th[t].seen
                /\ ~th[t].seen.present \/ th[t].seen.expires_at <= now)
    /\ [][\A t \in MainThread :
            /\ LoginFails(t) =>
                /\ UNCHANGED <<emr_connect_cache, scribe_token_cache>>
                /\ th'[t].pc = "done"
            /\ SameKeyAgain(t) => th'[t].pc \in {"fetch", "sfetch"}]_vars

\* a login failed where an expired entry was cached, and the entry is still
\* there; another, with no entry, for the key of the scribe domain
C28_Witness ==
    \E t \in MainThread :
        /\ LoginFailed(th[t])
        /\ th[t].seen.present
        /\ EntryFor(th[t].key).present
        /\ th[t].key # ScribeKey
        /\ th[t].ret.error = "ValueError: missing access_token"

\* the resolution took the credentials of the configuration
ByConfiguration(r) == r.strategy \in {"default_pair", "default_static", "invalid"}

\* the configuration of domain d names a client id and a client secret
PairConfigured(d) == Truthy(cfg[d].client_id) /\ Truthy(cfg[d].client_secret)

\* C29: a resolution that takes the credentials of the configuration uses
\* the client id and secret when both are configured, whether or not a
\* static token is configured too: the token it returns was obtained by a
\* login exchange or read from the cache.  The static token is returned
\* only when the pair is incomplete.  Per-call parameters are taken the
\* other way round, the token first.
C29_ConfiguredPairFirst ==
    \A t \in MainThread :
        LET r == th[t] IN
        /\ (ByConfiguration(r) /\ PairConfigured(r.d)) =>
                /\ r.strategy = "default_pair"
                /\ r.ret.kind = "ok" =>
                    /\ "static" \notin DOMAIN r.ret.token
                    /\ r.ret.token = (IF r.exchanged THEN r.tok ELSE r.seen.access_token)
        /\ r.strategy = "default_static" =>
                /\ ~PairConfigured(r.d)
                /\ r.ret = Ok(StaticToken(Val(cfg[r.d].api_token)), r.base)
        /\ (r.given_token # None /\ r.given_pair) => r.strategy = "static"

\* token and pair are both configured, and the resolution logged in
C29_Witness ==
    \E t \in MainThread :
        LET r == th[t] IN
        /\ ByConfiguration(r) /\ PairConfigured(r.d) /\ Truthy(cfg[r.d].api_token)
        /\ r.d = "emr"
        /\ r.pc = "done" /\ r.exchanged /\ r.ret.kind = "ok"

-----------------------------------------------------------------------------
(* Properties of the transcription status poll                             *)

\* the poll has ended
PollEnded == tr_requests > 0 /\ tr_pc \in {"returned", "raised"}

\* the last status request was answered with this status code
LastStatus(codes) == "status" \in DOMAIN tr_last /\ tr_last.status \in codes

\* C30: the status poll ends after at most 120 status requests.  It returns
\* the data when a request is answered 200 or 206, raises RuntimeError when
\* one is answered with another status than 200, 206 or 202, and raises
\* TimeoutError when all 120 requests were answered 202.  No request is
\* sent after one of these: every answer before the last was a 202.
C30_PollTerminates ==
    /\ tr_requests <= MAX_POLL_ATTEMPTS
    /\ (tr_pc = "polling" /\ tr_requests > 0) => LastStatus({202})
    /\ \A i \in DOMAIN tr_statuses : i < tr_requests => tr_statuses[i] = 202
    /\ PollEnded =>
        /\ LastStatus({200, 206}) => tr_pc = "returned" /\ tr_ret.kind = "returned"
        /\ LastStatus(StatusCodes \ {200, 206, 202}) => tr_ret = PollRaised("RuntimeError")
        /\ LastStatus({202}) =>
            /\ tr_requests = MAX_POLL_ATTEMPTS
            /\ tr_ret = PollRaised("TimeoutError")

====
